---- MODULE Spec2Model ----
(***************************************************************************)
(* The on-demand transpilation gateway of abret (middleware/transpiler):   *)
(* the vendor trust gate, the jail of the source path resolver, the        *)
(* in-flight job map (activeBundles), the persisted vendor cache, the      *)
(* weak validator of the freshness fast path and the import rewriter.      *)
(*                                                                         *)
(* Strings of the program are sequences of one-character strings, so that  *)
(* slicing, prefix tests, path joining and key formation are computed as   *)
(* the code computes them.                                                 *)
(*                                                                         *)
(* JavaScript runs one macrotask at a time and drains every microtask      *)
(* before the next macrotask.  An action of this model is one macrotask    *)
(* together with the microtasks it releases: the arrival of a request runs *)
(* the handler up to its first await on a pending promise, and the         *)
(* completion of a compiler invocation or of a disk write runs the rest of *)
(* the producer (its catch and finally blocks) and resumes every request   *)
(* awaiting that promise.                                                  *)
(*                                                                         *)
(* The routes of abret (createRoute, composeMiddlewares) and the context   *)
(* store (runWithContext, setContext) are modelled by SpecRoute: one       *)
(* request runs through the middlewares and the handler of a route, a step *)
(* being the run of one function up to its next call or return.            *)
(***************************************************************************)
EXTENDS Integers, Sequences, FiniteSets, TLC

(***************************************************************************)
(* Strings                                                                 *)
(***************************************************************************)
Str_empty == << >>

StartsWith(s, p) ==
  /\ Len(s) >= Len(p)
  /\ SubSeq(s, 1, Len(p)) = p

EndsWith(s, p) ==
  /\ Len(s) >= Len(p)
  /\ SubSeq(s, Len(s) - Len(p) + 1, Len(s)) = p

\* s.slice(n) for n >= 0
SliceFrom(s, n) == SubSeq(s, n + 1, Len(s))

\* s.slice(0, -n)
SliceDropLast(s, n) == SubSeq(s, 1, Len(s) - n)

Includes(s, c) == \E i \in 1..Len(s) : s[i] = c

\* index of the last occurrence of character c in s, 0 when there is none
LastIndexOf(s, c) ==
  IF Includes(s, c)
  THEN CHOOSE i \in 1..Len(s) : s[i] = c /\ \A j \in (i+1)..Len(s) : s[j] # c
  ELSE 0

\* index of the first occurrence of character c in s, 0 when there is none
IndexOf(s, c) ==
  IF Includes(s, c)
  THEN CHOOSE i \in 1..Len(s) : s[i] = c /\ \A j \in 1..(i-1) : s[j] # c
  ELSE 0

\* s.split(c): the pieces of s between occurrences of c (empty pieces kept)
RECURSIVE Split(_, _)
Split(s, c) ==
  LET i == IndexOf(s, c)
  IN  IF i = 0 THEN <<s>>
      ELSE <<SubSeq(s, 1, i - 1)>> \o Split(SliceFrom(s, i), c)

\* pieces.join(c)
RECURSIVE Join(_, _)
Join(pieces, c) ==
  IF Len(pieces) = 0 THEN Str_empty
  ELSE IF Len(pieces) = 1 THEN pieces[1]
  ELSE pieces[1] \o <<c>> \o Join(Tail(pieces), c)

\* s.replace(/\//g, "__")
RECURSIVE ReplaceSlashes(_)
ReplaceSlashes(s) ==
  IF Len(s) = 0 THEN Str_empty
  ELSE (IF Head(s) = "/" THEN <<"_", "_">> ELSE <<Head(s)>>) \o ReplaceSlashes(Tail(s))

\* s.replace(/__/g, "/"): leftmost non-overlapping pairs of underscores
RECURSIVE ReplaceDoubleUnderscores(_)
ReplaceDoubleUnderscores(s) ==
  IF Len(s) = 0 THEN Str_empty
  ELSE IF Len(s) >= 2 /\ s[1] = "_" /\ s[2] = "_"
       THEN <<"/">> \o ReplaceDoubleUnderscores(SliceFrom(s, 2))
       ELSE <<Head(s)>> \o ReplaceDoubleUnderscores(Tail(s))

\* s.replace(/^\/|\/$/g, "")
StripSlashes(s) ==
  LET a == IF Len(s) > 0 /\ Head(s) = "/" THEN Tail(s) ELSE s
  IN  IF Len(a) > 0 /\ a[Len(a)] = "/" THEN SliceDropLast(a, 1) ELSE a

\* the decimal digits of a number below 10, as template literals print it
DigitStr(n) == <<(<<"0", "1", "2", "3", "4", "5", "6", "7", "8", "9">>)[n + 1]>>

BoolStr(b) == IF b THEN <<"t", "r", "u", "e">> ELSE <<"f", "a", "l", "s", "e">>

(***************************************************************************)
(* node:path (POSIX) and the URL parser                                    *)
(***************************************************************************)
\* the segments of a path after "." and ".." are resolved and empty
\* segments dropped; ".." at the root of an absolute path stays at the root
RECURSIVE ResolveDots(_, _)
ResolveDots(segs, acc) ==
  IF Len(segs) = 0 THEN acc
  ELSE LET h == Head(segs)
       IN  IF h = Str_empty \/ h = <<".">> THEN ResolveDots(Tail(segs), acc)
           ELSE IF h = <<".", ".">>
                THEN ResolveDots(Tail(segs),
                                 IF Len(acc) = 0 THEN acc ELSE SliceDropLast(acc, 1))
                ELSE ResolveDots(Tail(segs), Append(acc, h))

\* path.join(absolute, rel) for an absolute first argument: concatenate with
\* a separator, then path.normalize
PathJoin(abs, rel) ==
  LET joined == IF Len(rel) = 0 THEN abs ELSE abs \o <<"/">> \o rel
      segs   == ResolveDots(Split(Tail(joined), "/"), << >>)
      body   == <<"/">> \o Join(segs, "/")
  IN  IF Len(segs) > 0 /\ joined[Len(joined)] = "/" THEN body \o <<"/">> ELSE body

\* path.extname(p)
Extname(p) ==
  LET base == SliceFrom(p, LastIndexOf(p, "/"))
      i    == LastIndexOf(base, ".")
  IN  IF i <= 1 \/ base = <<".", ".">> THEN Str_empty
      ELSE SubSeq(base, i, Len(base))

\* a URL path segment the parser reads as "..": "..", ".%2e", "%2e.", "%2e%2e"
IsDoubleDotSegment(seg) ==
  seg \in { <<".", ".">>, <<".", "%", "2", "e">>, <<"%", "2", "e", ".">>,
            <<"%", "2", "e", "%", "2", "e">> }

IsSingleDotSegment(seg) == seg \in { <<".">>, <<"%", "2", "e">> }

\* the path state of the URL parser: dot segments are removed, empty
\* segments are kept
RECURSIVE UrlSegments(_, _)
UrlSegments(segs, acc) ==
  IF Len(segs) = 0 THEN acc
  ELSE LET h    == Head(segs)
           last == Len(segs) = 1
       IN  IF IsDoubleDotSegment(h)
           THEN LET popped == IF Len(acc) = 0 THEN acc ELSE SliceDropLast(acc, 1)
                IN  UrlSegments(Tail(segs),
                                IF last THEN Append(popped, Str_empty) ELSE popped)
           ELSE IF IsSingleDotSegment(h)
                THEN UrlSegments(Tail(segs),
                                 IF last THEN Append(acc, Str_empty) ELSE acc)
                ELSE UrlSegments(Tail(segs), Append(acc, h))

\* a pathname taken from the request target as written
UrlPathnameIdentity(target) == target

\* new URL(req.url).pathname, for the path of the request target
UrlPathname(target) ==
  <<"/">> \o Join(UrlSegments(Split(Tail(target), "/"), << >>), "/")

(***************************************************************************)
(* Configuration (TranspilerOptions) and the machine the gateway runs on   *)
(***************************************************************************)
staticBasePath == <<"/", "m">>
vendorPath == <<"v">>
minify == FALSE
localMaxAge == 0
\* path.resolve(process.cwd(), sourcePath)
absSourcePath == <<"/", "r", "/", "s">>

\* alternative in which the prefix is used as configured, without the slash
BasePrefixAsConfigured == staticBasePath

basePrefix ==
  IF EndsWith(staticBasePath, <<"/">>) THEN staticBasePath ELSE staticBasePath \o <<"/">>

vendorPrefix == basePrefix \o StripSlashes(vendorPath) \o <<"/">>

\* package names
pkgP == <<"p">>
pkgQ == <<"q">>
pkgN == <<"n">>
pkgX == <<"x">>
pkgD == <<"d">>
\* a subpath of a package, and a package whose name holds two underscores
pkgS == <<"a", "/", "b">>
pkgU == <<"a", "_", "_", "b">>
pkgG == <<"g">>
\* a name every object inherits from Object.prototype
pkgC == <<"constructor">>
Packages == {pkgP, pkgQ, pkgN, pkgX, pkgD, pkgG, pkgS, pkgU, pkgC}

\* the keys of the globals option
globals == {pkgG}

\* the names of the properties a plain object inherits
ObjectPrototypeKeys == {pkgC}

\* globals[moduleName] is truthy: an own key (its value is the name of a
\* global variable) or an inherited property
GlobalsTruthy(moduleName) ==
  moduleName \in globals \/ moduleName \in ObjectPrototypeKeys

\* the packages Bun.resolveSync(name, process.cwd()) finds
Installed == {pkgP, pkgQ}

\* source files: one module under the source root, one in a sibling
\* directory whose name begins with the root's name, one above the root
fileA == <<"/", "r", "/", "s", "/", "a", ".", "t", "s">>
fileC == <<"/", "r", "/", "s", "/", "c", ".", "c", "s", "s">>
fileSibling == <<"/", "r", "/", "s", "x", "/", "k", ".", "t", "s">>
fileAbove == <<"/", "r", "/", "k", ".", "t", "s">>
Touchable == {fileA}

\* the bare specifiers a version of a source file imports
ImportsOf(path, content) ==
  IF path = fileA THEN (IF content = 1 THEN {pkgP, pkgN}
                        ELSE {pkgP, pkgN, pkgQ, pkgX, pkgC})
  ELSE {}

\* a path lies in the directory tree of root: it is root or continues it
\* after a separator
InsideTree(path, root) == path = root \/ StartsWith(path, root \o <<"/">>)

(***************************************************************************)
(* Values                                                                  *)
(***************************************************************************)
None == <<"<none>">>
NullPath == <<"<null>">>

ExtJs == <<".", "j", "s">>
ExtCss == <<".", "c", "s", "s">>
possibleExtensions ==
  << <<".", "t", "s", "x">>, <<".", "t", "s">>, <<".", "j", "s", "x">>, ExtJs >>

\* a validator that leaves the modification time out
FastEtagWithoutMtime(size, mtimeMs, min) ==
  <<"W", "/", "\"">> \o DigitStr(size) \o <<"-">> \o BoolStr(min) \o <<"\"">>

\* `W/"${sourceStat.size}-${sourceStat.mtimeMs}-${minify}"`
fastEtag(size, mtimeMs, min) ==
  <<"W", "/", "\"">> \o DigitStr(size) \o <<"-">> \o DigitStr(mtimeMs) \o <<"-">>
    \o BoolStr(min) \o <<"\"">>

\* `local:${sourceFile}:${fastEtag}`
lockKey(sourceFile, etag) ==
  <<"l", "o", "c", "a", "l", ":">> \o sourceFile \o <<":">> \o etag

\* moduleName.replace(/\//g, "__")
cacheKey(moduleName) == ReplaceSlashes(moduleName)

\* path.join(cacheDir, `${cacheKey}.js`), as the name of the file in cacheDir
cachedFile(moduleName) == cacheKey(moduleName) \o ExtJs

\* `https://esm.sh/${moduleName}`
CdnUrl(moduleName) ==
  <<"h", "t", "t", "p", "s", ":", "/", "/", "e", "s", "m", ".", "s", "h", "/">> \o moduleName

\* `${basePrefix}${vendorPath.replace(/^\/|\/$/g, "")}/${moduleName}`
VendorUrl(moduleName) == basePrefix \o StripSlashes(vendorPath) \o <<"/">> \o moduleName

\* String.prototype.trim over the blank character
RECURSIVE TrimLeft(_)
TrimLeft(s) == IF Len(s) > 0 /\ Head(s) = " " THEN TrimLeft(Tail(s)) ELSE s

RECURSIVE TrimRight(_)
TrimRight(s) ==
  IF Len(s) > 0 /\ s[Len(s)] = " " THEN TrimRight(SliceDropLast(s, 1)) ELSE s

Trim(s) == TrimRight(TrimLeft(s))

\* a set that holds only the name registered last
RegisterReplacing(trusted, moduleName) == {Trim(moduleName)}

\* registerTrustedDependency: the set after registering moduleName
registerTrustedDependency(trusted, moduleName) ==
  IF moduleName = Str_empty THEN trusted
  ELSE LET normalizedName == Trim(moduleName)
       IN  IF normalizedName # Str_empty /\ normalizedName \notin trusted
           THEN trusted \cup {normalizedName}
           ELSE trusted

RECURSIVE RegisterAll(_, _)
RegisterAll(trusted, names) ==
  IF names = {} THEN trusted
  ELSE LET n == CHOOSE n \in names : TRUE
       IN  RegisterAll(registerTrustedDependency(trusted, n), names \ {n})

\* alternative in which every name handed to the resolver is registered
ResolveRegisteringAll(trusted, moduleName, cdn) ==
  [path |-> VendorUrl(moduleName),
   trusted |-> registerTrustedDependency(trusted, moduleName)]

\* resolveModulePath: the specifier written into the code, and the trusted
\* set afterwards
resolveModulePath(trusted, moduleName, cdn) ==
  IF GlobalsTruthy(moduleName) THEN [path |-> moduleName, trusted |-> trusted]
  ELSE IF moduleName \in Installed
       THEN [path |-> VendorUrl(moduleName),
             trusted |-> registerTrustedDependency(trusted, moduleName)]
       ELSE IF cdn THEN [path |-> CdnUrl(moduleName), trusted |-> trusted]
            ELSE [path |-> VendorUrl(moduleName), trusted |-> trusted]

RECURSIVE ResolveAll(_, _, _)
ResolveAll(trusted, names, cdn) ==
  IF names = {} THEN trusted
  ELSE LET n == CHOOSE n \in names : TRUE
       IN  ResolveAll(resolveModulePath(trusted, n, cdn).trusted, names \ {n}, cdn)

\* secureResolve: the joined path, or null when it does not start with the
\* source directory
secureResolve(relativePath) ==
  LET cleanRelative == IF StartsWith(relativePath, <<"/">>)
                       THEN SliceFrom(relativePath, 1) ELSE relativePath
      resolvedPath  == PathJoin(absSourcePath, cleanRelative)
  IN  IF ~StartsWith(resolvedPath, absSourcePath) THEN NullPath ELSE resolvedPath

\* the paths the loop over possibleExtensions hands to existsSync, in order,
\* up to and including the first that exists
RECURSIVE ProbeExtensions(_, _, _)
ProbeExtensions(baseFileName, exts, existing) ==
  IF Len(exts) = 0 THEN [sourceFile |-> Str_empty, probes |-> {}]
  ELSE LET p == secureResolve(baseFileName \o Head(exts))
       IN  IF p # NullPath /\ p \in existing
           THEN [sourceFile |-> p, probes |-> {p}]
           ELSE LET rest == ProbeExtensions(baseFileName, Tail(exts), existing)
                IN  [sourceFile |-> rest.sourceFile,
                     probes |-> rest.probes \cup (IF p = NullPath THEN {} ELSE {p})]

\* the source file of a local request (empty when there is none), its
\* content type, and every path handed to existsSync
ResolveSourceFile(internalPath, existing) ==
  IF Extname(internalPath) = ExtCss
  THEN LET p == secureResolve(internalPath)
       IN  IF p # NullPath /\ p \in existing
           THEN [sourceFile |-> p, contentType |-> "text/css", probes |-> {p}]
           ELSE [sourceFile |-> Str_empty, contentType |-> "application/javascript",
                 probes |-> IF p = NullPath THEN {} ELSE {p}]
  ELSE LET baseFileName == IF EndsWith(internalPath, ExtJs)
                           THEN SliceDropLast(internalPath, 3) ELSE internalPath
           r == ProbeExtensions(baseFileName, possibleExtensions, existing)
       IN  [sourceFile |-> r.sourceFile, contentType |-> "application/javascript",
            probes |-> r.probes]

(***************************************************************************)
(* The import rewriter: transpiledCode.replace(tokenRegex, callback)       *)
(*                                                                         *)
(* Code is a sequence of characters in which the words import, export and  *)
(* from are single elements.  The programs of this model contain no        *)
(* backslash and no backtick, so the escape and template branches of the   *)
(* expression are not taken.                                               *)
(***************************************************************************)
DQ == "\""
SQ == "'"
Quotes == {DQ, SQ}
Blank == {" ", "\n"}

\* the first index >= i whose element is in set, 0 when there is none
FirstIn(code, i, set) ==
  IF \E k \in i..Len(code) : code[k] \in set
  THEN CHOOSE k \in i..Len(code) :
         code[k] \in set /\ \A m \in i..(k - 1) : code[m] \notin set
  ELSE 0

\* the first index >= i that is not white space (Len(code) + 1 at the end)
RECURSIVE SkipBlank(_, _)
SkipBlank(code, i) ==
  IF i <= Len(code) /\ code[i] \in Blank THEN SkipBlank(code, i + 1) ELSE i

At(code, i, c) == i <= Len(code) /\ code[i] = c

NoMatch == [ok |-> FALSE, literal |-> FALSE, last |-> 0, from |-> 0, to |-> 0]

\* group 1 at position i: a quoted string, a line comment or a block
\* comment
MatchLiteral(code, i) ==
  IF code[i] \in Quotes
  THEN LET close == FirstIn(code, i + 1, {code[i]})
       IN  IF close = 0 THEN NoMatch
           ELSE [ok |-> TRUE, literal |-> TRUE, last |-> close, from |-> 0, to |-> 0]
  ELSE IF code[i] = "/" /\ At(code, i + 1, "/")
  THEN LET nl == FirstIn(code, i + 2, {"\n"})
       IN  [ok |-> TRUE, literal |-> TRUE,
            last |-> IF nl = 0 THEN Len(code) ELSE nl - 1, from |-> 0, to |-> 0]
  ELSE IF code[i] = "/" /\ At(code, i + 1, "*")
  THEN LET ends == {k \in (i + 2)..(Len(code) - 1) : code[k] = "*" /\ code[k + 1] = "/"}
       IN  IF ends = {} THEN NoMatch
           ELSE [ok |-> TRUE, literal |-> TRUE,
                 last |-> (CHOOSE k \in ends : \A m \in ends : k <= m) + 1,
                 from |-> 0, to |-> 0]
  ELSE NoMatch

\* groups 3 and 4 once group 2 has ended with the quote at position q:
\* ([^'"]+)(['"]\)?)
MatchSpecifier(code, q) ==
  LET close == FirstIn(code, q + 1, Quotes)
  IN  IF close = 0 \/ close = q + 1 THEN NoMatch
      ELSE [ok |-> TRUE, literal |-> FALSE,
            last |-> IF At(code, close + 1, ")") THEN close + 1 ELSE close,
            from |-> q + 1, to |-> close - 1]

\* (?:import|export)\s*[\s\S]*?from\s*['"] followed by groups 3 and 4: the
\* lazy quantifier takes the first `from` after which the rest matches
MatchFromClause(code, i) ==
  LET good == {f \in (i + 1)..Len(code) :
                 /\ code[f] = "from"
                 /\ SkipBlank(code, f + 1) <= Len(code)
                 /\ code[SkipBlank(code, f + 1)] \in Quotes
                 /\ MatchSpecifier(code, SkipBlank(code, f + 1)).ok}
  IN  IF code[i] \notin {"import", "export"} \/ good = {} THEN NoMatch
      ELSE MatchSpecifier(code,
             SkipBlank(code, (CHOOSE f \in good : \A g \in good : f <= g) + 1))

\* import\s*\(['"] followed by groups 3 and 4
MatchDynamicImport(code, i) ==
  LET paren == SkipBlank(code, i + 1)
  IN  IF /\ code[i] = "import"
         /\ At(code, paren, "(")
         /\ paren + 1 <= Len(code)
         /\ code[paren + 1] \in Quotes
      THEN MatchSpecifier(code, paren + 1)
      ELSE NoMatch

\* tokenRegex at position i: group 1 first, then the from clause, then the
\* dynamic import
MatchAt(code, i) ==
  IF MatchLiteral(code, i).ok THEN MatchLiteral(code, i)
  ELSE IF MatchFromClause(code, i).ok THEN MatchFromClause(code, i)
  ELSE MatchDynamicImport(code, i)

\* alternative in which the test for a URL is left out of the callback
NeverUrl(path) == FALSE

\* /^(https?:|(?:\/\/))/.test(path)
IsUrl(path) ==
  \/ StartsWith(path, <<"h", "t", "t", "p", ":">>)
  \/ StartsWith(path, <<"h", "t", "t", "p", "s", ":">>)
  \/ StartsWith(path, <<"/", "/">>)

\* the callback: the text that replaces the specifier
RewriteSpecifier(path, cdn) ==
  IF IsUrl(path) THEN path
  ELSE IF ~StartsWith(path, <<".">>) /\ ~StartsWith(path, <<"/">>)
  THEN resolveModulePath({}, path, cdn).path
  ELSE IF /\ StartsWith(path, <<".">>)
          /\ ~Includes(Split(path, "/")[Len(Split(path, "/"))], ".")
  THEN path \o ExtJs
  ELSE path

\* the matches of the global replace from position i on, left to right
RECURSIVE Matches(_, _)
Matches(code, i) ==
  IF i > Len(code) THEN << >>
  ELSE LET m == MatchAt(code, i)
       IN  IF m.ok THEN <<m>> \o Matches(code, m.last + 1)
           ELSE Matches(code, i + 1)

\* the specifiers the callback changed: their positions in the input and
\* the text put in their place
RECURSIVE EditsOf(_, _, _)
EditsOf(code, ms, cdn) ==
  IF Len(ms) = 0 THEN << >>
  ELSE LET m    == Head(ms)
           path == SubSeq(code, m.from, m.to)
       IN  IF ~m.literal /\ RewriteSpecifier(path, cdn) # path
           THEN <<[from |-> m.from, to |-> m.to, text |-> RewriteSpecifier(path, cdn)]>>
                  \o EditsOf(code, Tail(ms), cdn)
           ELSE EditsOf(code, Tail(ms), cdn)

\* the code with the edits applied, from position i on
RECURSIVE ApplyEdits(_, _, _)
ApplyEdits(code, i, edits) ==
  IF Len(edits) = 0 THEN SubSeq(code, i, Len(code))
  ELSE SubSeq(code, i, Head(edits).from - 1) \o Head(edits).text
         \o ApplyEdits(code, Head(edits).to + 1, Tail(edits))

\* finalCode, with the edits that produced it
RewriteCode(code, cdn) ==
  LET edits == EditsOf(code, Matches(code, 1), cdn)
  IN  [finalCode |-> ApplyEdits(code, 1, edits), edits |-> edits]

(***************************************************************************)
(* Bounds                                                                  *)
(***************************************************************************)
\* requests handled by one gateway instance
MaxReqs == 3
\* modifications of a source file while the gateway runs
MaxTouches == 1
\* clients that disconnect while their request awaits a build
MaxAborts == 1
\* statements of a compiled module handed to the import rewriter
MaxStatements == 2
\* middlewares of a route, and of one composeMiddlewares call
MaxMiddlewares == 2

Reqs == 1..MaxReqs

(***************************************************************************)
(* State                                                                   *)
(***************************************************************************)
VARIABLES
  cdnFallback,          \* the cdnFallback option
  prewarm,              \* the prewarm option
  trustedDependencies,  \* the Set of trusted package names
  activeBundles,        \* the Map from key to the promise of job number ...
  jobs,                 \* the build promises created so far, in order
  disk,                 \* cacheDir: file name -> content
  files,                \* the file system outside cacheDir: path -> stat, content
  touches,              \* modifications of source files so far
  editable,             \* the source files that are edited while the gateway runs
  workload,             \* the requests clients may send
  reqs,                 \* the requests: position in the handler, response
  transpiledCode,       \* the compiler output the import rewriter is given
  finalCode,            \* what the rewriter returned for it
  edits,                \* the specifiers the rewriter's callback changed
  resolutions,          \* the calls of resolveModulePath: name and result
  route,                \* a route made by createRoute: its middlewares and handler
  run                   \* one request to that route

gatewayVars == <<cdnFallback, prewarm, activeBundles, jobs, disk, files, touches,
                 editable, workload, reqs>>

rewriterVars == <<transpiledCode, finalCode, edits, resolutions>>

routeVars == <<route, run>>

vars == <<cdnFallback, prewarm, trustedDependencies, activeBundles, jobs, disk,
          files, touches, editable, workload, reqs, transpiledCode, finalCode,
          edits, resolutions, route, run>>

(***************************************************************************)
(* Responses                                                               *)
(***************************************************************************)
ImmutableCacheControl == "public, max-age=31536000, immutable"

NoResp ==
  [kind |-> "pending", status |-> 0, contentType |-> "", cacheControl |-> "",
   etag |-> None, body |-> None, location |-> None]

\* return next()
RespNext == [NoResp EXCEPT !.kind = "next"]

\* an exception leaves the handler
RespThrow == [NoResp EXCEPT !.kind = "throw"]

\* new Response(null, { status: 304 })
RespNotModified == [NoResp EXCEPT !.kind = "response", !.status = 304]

\* new Response(Bun.file(cachedFile), { headers: ... })
RespVendor(content) ==
  [NoResp EXCEPT !.kind = "response", !.status = 200,
                 !.contentType = "application/javascript",
                 !.cacheControl = ImmutableCacheControl, !.body = content]

\* new Response(result.content, { headers: ... })
RespLocal(content, contentType, etag) ==
  [NoResp EXCEPT !.kind = "response", !.status = 200, !.contentType = contentType,
                 !.etag = etag, !.body = content,
                 !.cacheControl = IF localMaxAge > 0 THEN "public, max-age" ELSE "no-cache"]

\* the error overlay script
RespDiagnostic(sourceFile) ==
  [NoResp EXCEPT !.kind = "response", !.status = 200,
                 !.contentType = "application/javascript",
                 !.body = <<"diagnostic", sourceFile>>]

\* Response.redirect(`https://esm.sh/${moduleName}`, 302)
RespRedirect(moduleName) ==
  [NoResp EXCEPT !.kind = "response", !.status = 302, !.location = CdnUrl(moduleName)]

(***************************************************************************)
(* The in-flight job map and the producers                                 *)
(***************************************************************************)
Settled(job) == job.state \in {"resolved", "rejected"}

\* a map in which no key is ever found
HasNoActiveBundle(ab, key) == FALSE

\* activeBundles.has(key)
HasActiveBundle(ab, key) == key \in DOMAIN ab

\* a map that forgets what is set
SetActiveBundleDropped(ab, key, j) == ab

\* activeBundles.set(key, promise)
SetActiveBundle(ab, key, j) == [k \in DOMAIN ab \cup {key} |-> IF k = key THEN j ELSE ab[k]]

\* a map that keeps what is deleted
KeepActiveBundle(ab, key) == ab

\* activeBundles.delete(key)
DeleteActiveBundle(ab, key) == [k \in DOMAIN ab \ {key} |-> ab[k]]

\* a cache directory in which no file is ever found
NeverInCache(d, file) == FALSE

\* existsSync(cachedFile)
ExistsInCache(d, file) == file \in DOMAIN d

\* a comparison that never succeeds
NeverMatches(header, etag) == FALSE

\* req.headers.get("if-none-match") === fastEtag
IfNoneMatchHits(header, etag) == header = etag

\* the jobs for a key that have settled
FinishedCount(js, key) ==
  Cardinality({j \in 1..Len(js) : js[j].key = key /\ Settled(js[j])})

\* the compiler invocations for a key that are in progress
RunningCompiles(js, key) ==
  Cardinality({j \in 1..Len(js) : js[j].key = key /\ js[j].state = "building"})

NewJob(kind, key, subject, contentType, state, compiled, by, js) ==
  [kind |-> kind, key |-> key, subject |-> subject, contentType |-> contentType,
   state |-> state, compiled |-> compiled, by |-> by,
   gen |-> FinishedCount(js, key), result |-> None, write |-> "none"]

\* bundleVendorModule up to its first suspension: the job whose promise the
\* caller receives (0 when the function returns at once), the map and the
\* jobs afterwards
bundleVendorModule(moduleName, ab, js, d, by) ==
  LET key == cacheKey(moduleName)
  IN  IF ExistsInCache(d, cachedFile(moduleName))
      THEN [job |-> 0, ab |-> ab, jobs |-> js]
      ELSE IF HasActiveBundle(ab, key)
      THEN [job |-> ab[key], ab |-> ab, jobs |-> js]
      ELSE IF moduleName \notin Installed
      THEN \* Bun.resolveSync throws inside the async function before any
           \* await: catch rethrows, finally deletes the key, which is not
           \* yet in the map, and the rejected promise is then registered
           LET j == Len(js) + 1
           IN  [job |-> j,
                ab |-> SetActiveBundle(DeleteActiveBundle(ab, key), key, j),
                jobs |-> Append(js, NewJob("vendor", key, moduleName,
                                           "application/javascript", "rejected",
                                           FALSE, by, js))]
      ELSE \* Bun.build is called and awaited; the pending promise is registered
           LET j == Len(js) + 1
           IN  [job |-> j,
                ab |-> SetActiveBundle(ab, key, j),
                jobs |-> Append(js, NewJob("vendor", key, moduleName,
                                           "application/javascript", "building",
                                           TRUE, by, js))]

\* the vendor handler after `await bundleVendorModule(moduleName)`
VendorAfterBundle(moduleName, rejected, cdn, d) ==
  IF rejected /\ cdn THEN RespRedirect(moduleName)
  ELSE IF ExistsInCache(d, cachedFile(moduleName))
       THEN RespVendor(d[cachedFile(moduleName)])
       ELSE RespNext

\* the local handler after awaiting the build promise: the request that
\* created the promise awaits it inside try/catch, a request that found it
\* in the map awaits it bare
LocalAfterBuild(role, job, etag) ==
  IF job.state = "resolved" THEN RespLocal(job.result, job.contentType, etag)
  ELSE IF role = "leader" THEN RespDiagnostic(job.subject)
       ELSE RespThrow

\* the response of a request that awaited job j, once j has settled
AfterSettle(req, job, cdn, d) ==
  IF req.kind = "vendor"
  THEN VendorAfterBundle(req.moduleName, job.state = "rejected", cdn, d)
  ELSE LocalAfterBuild(req.role, job, req.etag)

\* the microtasks released when job j settles
ResumeWaiters(rs, j, job, cdn, d) ==
  [r \in Reqs |->
     IF rs[r].pc = "waiting" /\ rs[r].job = j
     THEN [rs[r] EXCEPT !.pc = "done", !.resp = AfterSettle(rs[r], job, cdn, d)]
     ELSE rs[r]]

(***************************************************************************)
(* Requests                                                                *)
(***************************************************************************)
targetA == basePrefix \o <<"a", ".", "j", "s">>
targetCss == basePrefix \o <<"c", ".", "c", "s", "s">>
targetMissing == basePrefix \o <<"z", ".", "j", "s">>
targetSibling == basePrefix \o <<".", ".", "/", "s", "x", "/", "k", ".", "j", "s">>
targetEncoded ==
  basePrefix \o <<"%", "2", "e", "%", "2", "e", "/", "s", "x", "/", "k", ".", "j", "s">>
targetAbove == basePrefix \o <<"a", "/", ".", ".", "/", ".", ".", "/", "k", ".", "j", "s">>
targetExtra == staticBasePath \o <<"-", "x", "/", "a", ".", "j", "s">>
targetBase == staticBasePath
targetGlued == staticBasePath \o <<"a", ".", "j", "s">>

Plain(targets) == {[target |-> t, inm |-> None] : t \in targets}

\* If-None-Match values a client may send with a request for a.js
Headers == {fastEtag(n, n, minify) : n \in 1..2}

\* requests for vendor modules
VendorLoad == Plain({vendorPrefix \o m : m \in {pkgP, pkgQ, pkgN, pkgX}})

\* requests for vendor modules of a gateway that starts with a warm cache
\* and a prewarm list
WarmLoad == Plain({vendorPrefix \o m : m \in {pkgP, pkgD}})

\* requests for vendor modules whose names differ in their separators only
EscapedLoad == Plain({vendorPrefix \o m : m \in {pkgS, pkgU}})

\* requests for a source file, plain and conditional
LocalLoad == Plain({targetA}) \cup {[target |-> targetA, inm |-> h] : h \in Headers}

\* requests for a source file that is edited to import further packages, and
\* for two of those packages
DiscoverLoad == Plain({targetA, vendorPrefix \o pkgQ, vendorPrefix \o pkgX})

\* requests for paths that are no source file, leave the source root or
\* miss the prefix
PathLoad ==
  Plain({targetCss, targetMissing, targetSibling, targetEncoded, targetAbove,
         targetExtra, targetBase, targetGlued})

\* new Map(), an empty directory
EmptyMap == [k \in {} |-> 0]

\* requests that end in a miss: untrusted packages, installed or not, a
\* path that leaves the source root, a file that does not exist
MissLoad ==
  Plain({vendorPrefix \o pkgQ, vendorPrefix \o pkgX, targetSibling, targetMissing})

IdleReq ==
  [pc |-> "idle", target |-> None, inm |-> None, kind |-> "none",
   moduleName |-> None, sourceFile |-> None, etag |-> None, key |-> None,
   role |-> "none", job |-> 0, gate |-> "n/a", onDisk |-> EmptyMap, gen |-> 0,
   stat |-> None, aborted |-> FALSE,
   probes |-> {}, resp |-> NoResp]

\* the request as it enters the handler; onDisk records what cacheDir holds
\* at that moment
Incoming(input) ==
  [IdleReq EXCEPT !.target = input.target, !.inm = input.inm, !.onDisk = disk]

\* the request in position r leaves the handler with response resp
Finish(r, req, resp) ==
  reqs' = [reqs EXCEPT ![r] = [req EXCEPT !.pc = "done", !.resp = resp]]

\* the request in position r awaits the pending promise of job j, or, when
\* that promise has already settled, continues at once
AwaitJob(r, req, j, js, d) ==
  IF Settled(js[j])
  THEN Finish(r, [req EXCEPT !.job = j], AfterSettle(req, js[j], cdnFallback, d))
  ELSE reqs' = [reqs EXCEPT ![r] = [req EXCEPT !.pc = "waiting", !.job = j]]

\* --- 1. HANDLE VENDOR MODULES
HandleVendor(r, input, pathname) ==
  \E moduleName \in {SliceFrom(pathname, Len(vendorPrefix))} :
  \E trusted \in {moduleName \in trustedDependencies} :
  \E req \in {[Incoming(input) EXCEPT
                              !.kind = "vendor", !.moduleName = moduleName,
                              !.gate = IF trusted THEN "trusted" ELSE "untrusted"]} :
    IF ~cdnFallback /\ ~trusted
    THEN /\ Finish(r, req, RespNext)
         /\ UNCHANGED <<activeBundles, jobs>>
    ELSE IF ExistsInCache(disk, cachedFile(moduleName))
    THEN /\ Finish(r, req, RespVendor(disk[cachedFile(moduleName)]))
         /\ UNCHANGED <<activeBundles, jobs>>
    ELSE \E b \in {bundleVendorModule(moduleName, activeBundles, jobs, disk, r)} :
         \E req1 \in {[req EXCEPT !.key = cacheKey(moduleName),
                                  !.role = IF b.job > Len(jobs) THEN "leader"
                                           ELSE "joiner",
                                  !.gen = FinishedCount(jobs, cacheKey(moduleName))]} :
           /\ activeBundles' = b.ab
           /\ jobs' = b.jobs
           /\ IF b.job = 0
              THEN Finish(r, req1,
                          VendorAfterBundle(moduleName, FALSE, cdnFallback, disk))
              ELSE AwaitJob(r, req1, b.job, b.jobs, disk)

\* alternative in which the job map is consulted before the validator is
\* compared
HandleLocalLookupFirst(r, input, pathname) ==
  \E found \in {ResolveSourceFile(SliceFrom(pathname, Len(basePrefix)), DOMAIN files)} :
  \E req \in {[Incoming(input) EXCEPT !.kind = "local", !.probes = found.probes]} :
    IF found.sourceFile = Str_empty
    THEN /\ Finish(r, req, RespNext)
         /\ UNCHANGED <<activeBundles, jobs>>
    ELSE \E sourceFile \in {found.sourceFile} :
         \E etag \in {fastEtag(files[sourceFile].size, files[sourceFile].mtimeMs,
                               minify)} :
         \E key \in {lockKey(sourceFile, etag)} :
         \E req2 \in {[req EXCEPT !.sourceFile = sourceFile, !.etag = etag,
                                  !.stat = [size |-> files[sourceFile].size,
                                            mtimeMs |-> files[sourceFile].mtimeMs],
                                  !.key = key, !.gen = FinishedCount(jobs, key)]} :
           IF HasActiveBundle(activeBundles, key)
           THEN /\ AwaitJob(r, [req2 EXCEPT !.role = "joiner"],
                            activeBundles[key], jobs, disk)
                /\ UNCHANGED <<activeBundles, jobs>>
           ELSE IF IfNoneMatchHits(input.inm, etag)
           THEN /\ Finish(r, req2, RespNotModified)
                /\ UNCHANGED <<activeBundles, jobs>>
           ELSE \E js \in {Append(jobs,
                             NewJob("local", key, sourceFile, found.contentType,
                                    "building", TRUE, r, jobs))} :
                  /\ jobs' = js
                  /\ activeBundles' = SetActiveBundle(activeBundles, key, Len(js))
                  /\ AwaitJob(r, [req2 EXCEPT !.role = "leader"], Len(js), js, disk)

\* --- 2. HANDLE LOCAL SOURCE FILES
HandleLocal(r, input, pathname) ==
  \E found \in {ResolveSourceFile(SliceFrom(pathname, Len(basePrefix)), DOMAIN files)} :
  \E req \in {[Incoming(input) EXCEPT !.kind = "local", !.probes = found.probes]} :
    IF found.sourceFile = Str_empty
    THEN /\ Finish(r, req, RespNext)
         /\ UNCHANGED <<activeBundles, jobs>>
    ELSE \E sourceFile \in {found.sourceFile} :
         \E etag \in {fastEtag(files[sourceFile].size, files[sourceFile].mtimeMs,
                               minify)} :
         \E key \in {lockKey(sourceFile, etag)} :
         \E req1 \in {[req EXCEPT !.sourceFile = sourceFile, !.etag = etag,
                                   !.stat = [size |-> files[sourceFile].size,
                                             mtimeMs |-> files[sourceFile].mtimeMs]]} :
           IF IfNoneMatchHits(input.inm, etag)
           THEN /\ Finish(r, req1, RespNotModified)
                /\ UNCHANGED <<activeBundles, jobs>>
           ELSE \E req2 \in {[req1 EXCEPT !.key = key,
                                          !.gen = FinishedCount(jobs, key)]} :
                  IF HasActiveBundle(activeBundles, key)
                  THEN /\ AwaitJob(r, [req2 EXCEPT !.role = "joiner"],
                                   activeBundles[key], jobs, disk)
                       /\ UNCHANGED <<activeBundles, jobs>>
                  ELSE \E js \in {Append(jobs,
                                    NewJob("local", key, sourceFile, found.contentType,
                                           "building", TRUE, r, jobs))} :
                         /\ jobs' = js
                         /\ activeBundles' =
                              SetActiveBundle(activeBundles, key, Len(js))
                         /\ AwaitJob(r, [req2 EXCEPT !.role = "leader"], Len(js), js,
                                     disk)

\* a request arrives: the middleware runs up to its first suspension
Arrive(r, input) ==
  /\ reqs[r].pc = "idle"
  /\ \A q \in Reqs : q < r => reqs[q].pc # "idle"
  /\ \E pathname \in {UrlPathname(input.target)} :
       IF ~StartsWith(pathname, basePrefix) /\ pathname # staticBasePath
       THEN /\ Finish(r, Incoming(input), RespNext)
            /\ UNCHANGED <<activeBundles, jobs>>
       ELSE IF StartsWith(pathname, vendorPrefix)
            THEN HandleVendor(r, input, pathname)
            ELSE HandleLocal(r, input, pathname)
  /\ UNCHANGED <<cdnFallback, prewarm, trustedDependencies, disk, files, touches,
                 editable, workload>>
  /\ UNCHANGED rewriterVars
  /\ UNCHANGED routeVars

(***************************************************************************)
(* Completions                                                             *)
(***************************************************************************)
\* the packages a vendor bundle imports: the abret-external-vendor plugin
\* hands each to resolveModulePath while the build runs
DepsOf(moduleName) == IF moduleName = pkgP THEN {pkgQ} ELSE {}

Outcomes == {"success", "failure", "throw"}

\* the promise of job j settles: finally deletes the key, waiters resume
Settle(j, state, result, d) ==
  LET job == [jobs[j] EXCEPT !.state = state, !.result = result,
                             !.write = IF jobs[j].state # "writing" THEN "none"
                                       ELSE IF state = "resolved" THEN "done"
                                       ELSE "failed"]
  IN  /\ jobs' = [jobs EXCEPT ![j] = job]
      /\ activeBundles' = DeleteActiveBundle(activeBundles, job.key)
      /\ reqs' = ResumeWaiters(reqs, j, job, cdnFallback, d)

\* Bun.build returns for a vendor job
VendorBuildDone(j, outcome, resolved) ==
  /\ j \in 1..Len(jobs)
  /\ jobs[j].kind = "vendor"
  /\ jobs[j].state = "building"
  /\ outcome = "success" => resolved
  /\ trustedDependencies' =
       IF resolved
       THEN ResolveAll(trustedDependencies, DepsOf(jobs[j].subject), cdnFallback)
       ELSE trustedDependencies
  /\ IF outcome = "success"
     THEN \* await output.text(); await Bun.write(cachedFile, content)
          /\ jobs' = [jobs EXCEPT ![j].state = "writing",
                                  ![j].result = <<"bundle", jobs[j].subject, j>>]
          /\ UNCHANGED <<activeBundles, reqs>>
     ELSE IF outcome = "failure"
     THEN \* !result.success: logged, the function returns without writing
          Settle(j, "resolved", None, disk)
     ELSE Settle(j, "rejected", None, disk)
  /\ UNCHANGED <<cdnFallback, prewarm, disk, files, touches, editable, workload>>
  /\ UNCHANGED rewriterVars
  /\ UNCHANGED routeVars

\* Bun.write has opened cachedFile: the file exists, its content is not
\* complete yet
WriteBegin(j) ==
  /\ j \in 1..Len(jobs)
  /\ jobs[j].state = "writing"
  /\ jobs[j].write = "none"
  /\ jobs' = [jobs EXCEPT ![j].write = "open"]
  /\ disk' = [f \in DOMAIN disk \cup {cachedFile(jobs[j].subject)} |->
                IF f = cachedFile(jobs[j].subject)
                THEN <<"partial", jobs[j].subject, j>>
                ELSE disk[f]]
  /\ UNCHANGED <<cdnFallback, prewarm, trustedDependencies, activeBundles, files,
                 touches, editable, workload, reqs>>
  /\ UNCHANGED rewriterVars
  /\ UNCHANGED routeVars

\* Bun.write returns for a vendor job: the content is complete, or the write
\* failed and what it left behind stays
WriteDone(j, ok) ==
  /\ j \in 1..Len(jobs)
  /\ jobs[j].state = "writing"
  /\ ok => jobs[j].write = "open"
  /\ IF ok
     THEN LET d == [f \in DOMAIN disk \cup {cachedFile(jobs[j].subject)} |->
                      IF f = cachedFile(jobs[j].subject) THEN jobs[j].result
                      ELSE disk[f]]
          IN  /\ disk' = d
              /\ Settle(j, "resolved", jobs[j].result, d)
     ELSE /\ disk' = disk
          /\ Settle(j, "rejected", None, disk)
  /\ UNCHANGED <<cdnFallback, prewarm, trustedDependencies, files, touches,
                 editable, workload>>
  /\ UNCHANGED rewriterVars
  /\ UNCHANGED routeVars

\* Bun.build returns for a local job; on success the import rewriter runs
LocalBuildDone(j, outcome) ==
  /\ j \in 1..Len(jobs)
  /\ jobs[j].kind = "local"
  /\ jobs[j].state = "building"
  /\ LET sourceFile == jobs[j].subject
         version    == files[sourceFile].content
     IN  IF outcome = "success"
         THEN /\ trustedDependencies' =
                   IF jobs[j].contentType = "text/css" THEN trustedDependencies
                   ELSE ResolveAll(trustedDependencies, ImportsOf(sourceFile, version),
                                   cdnFallback)
              /\ Settle(j, "resolved", <<"code", sourceFile, version, j>>, disk)
         ELSE /\ UNCHANGED trustedDependencies
              /\ Settle(j, "rejected", None, disk)
  /\ UNCHANGED <<cdnFallback, prewarm, disk, files, touches, editable, workload>>
  /\ UNCHANGED rewriterVars
  /\ UNCHANGED routeVars

\* alternative in which a disconnecting client takes the job it awaits down
\* with it
DisconnectAborting(r) ==
  /\ reqs[r].pc = "waiting"
  /\ ~reqs[r].aborted
  /\ Cardinality({q \in Reqs : reqs[q].aborted}) < MaxAborts
  /\ reqs[r].job \in 1..Len(jobs)
  /\ jobs' = [jobs EXCEPT ![reqs[r].job].state = "rejected"]
  /\ activeBundles' = DeleteActiveBundle(activeBundles, jobs[reqs[r].job].key)
  /\ reqs' = [reqs EXCEPT ![r].aborted = TRUE]
  /\ UNCHANGED <<cdnFallback, prewarm, trustedDependencies, disk, files, touches,
                 editable, workload>>
  /\ UNCHANGED rewriterVars
  /\ UNCHANGED routeVars

\* the client of a request that awaits a build disconnects; the handler
\* reads no abort signal and goes on awaiting
Disconnect(r) ==
  /\ reqs[r].pc = "waiting"
  /\ ~reqs[r].aborted
  /\ Cardinality({q \in Reqs : reqs[q].aborted}) < MaxAborts
  /\ reqs' = [reqs EXCEPT ![r].aborted = TRUE]
  /\ UNCHANGED <<cdnFallback, prewarm, trustedDependencies, activeBundles, jobs,
                 disk, files, touches, editable, workload>>
  /\ UNCHANGED rewriterVars
  /\ UNCHANGED routeVars

\* what statSync reports for a file
StatOf(file) == [size |-> file.size, mtimeMs |-> file.mtimeMs]

\* a source file is modified while the gateway runs; the file remembers what
\* statSync reported for its earlier versions
Touch(f, size, mtimeMs) ==
  /\ touches < MaxTouches
  /\ f \in editable
  /\ touches' = touches + 1
  /\ files' = [files EXCEPT ![f] = [size |-> size, mtimeMs |-> mtimeMs,
                                    content |-> files[f].content + 1,
                                    past |-> files[f].past \cup {StatOf(files[f])}]]
  /\ UNCHANGED <<cdnFallback, prewarm, trustedDependencies, activeBundles, jobs,
                 disk, editable, workload, reqs>>
  /\ UNCHANGED rewriterVars
  /\ UNCHANGED routeVars

(***************************************************************************)
(* Routes, middlewares and context scopes (createRoute, composeMiddlewares *)
(* and the AsyncLocalStorage store of runWithContext)                      *)
(*                                                                         *)
(* A middleware is identified by its position: <<i>> is the i-th           *)
(* middleware of the route, <<i, k>> the k-th middleware handed to the     *)
(* composeMiddlewares call at position i.  The handler is <<0>>.  A        *)
(* response is named after the function that created it.                   *)
(***************************************************************************)
HandlerId == <<0>>

Leaf(kind, id) == [id |-> id, kind |-> kind, inner |-> << >>]

NoMiddleware == Leaf("none", << >>)

\* what a middleware does with next: return next(), return a response of its
\* own, or call next() a second time and return what that gives
LeafKinds == {"pass", "stop", "twice"}

\* the argument lists of the composeMiddlewares calls of a route
Compositions ==
  { << >>, <<"pass">>, <<"pass", "pass">>, <<"pass", "stop">>, <<"stop", "pass">>,
    <<"twice", "stop">>, <<"pass", "twice">> }

\* composeMiddlewares(...inner) placed at position i of a route
ComposedAt(i) ==
  {[id |-> <<i>>, kind |-> "composed",
    inner |-> [k \in 1..Len(ks) |-> Leaf(ks[k], <<i, k>>)]] : ks \in Compositions}

MiddlewaresAt(i) == {Leaf(k, <<i>>) : k \in LeafKinds} \cup ComposedAt(i)

RECURSIVE MiddlewareLists(_)
MiddlewareLists(n) ==
  IF n = 0 THEN {<< >>}
  ELSE MiddlewareLists(n - 1)
       \cup {Append(l, m) : l \in {x \in MiddlewareLists(n - 1) : Len(x) = n - 1},
                            m \in MiddlewaresAt(n)}

\* what a route handler does with the context store before it returns its
\* Response
OpSet(k, v) == [op |-> "set", key |-> k, value |-> v]
OpClear(k) == [op |-> "clear", key |-> k, value |-> 0]
OpEnter == [op |-> "enter", key |-> "", value |-> 0]
OpExit == [op |-> "exit", key |-> "", value |-> 0]

Bodies ==
  { << >>,
    <<OpSet("a", 1)>>,
    <<OpSet("a", 1), OpEnter, OpSet("a", 2), OpSet("b", 1), OpExit>>,
    <<OpSet("a", 1), OpSet("b", 1), OpEnter, OpClear("a"), OpExit>>,
    <<OpEnter, OpSet("a", 1), OpEnter, OpSet("a", 2), OpExit, OpExit>> }

\* Map.prototype.set, Map.prototype.delete
MapSet(m, k, v) == [x \in DOMAIN m \cup {k} |-> IF x = k THEN v ELSE m[x]]
MapDelete(m, k) == [x \in DOMAIN m \ {k} |-> m[x]]

ScopeError == "setContext must be called within a context scope"

RouteFrame == [kind |-> "route", mw |-> NoMiddleware, chain |-> 0, pc |-> 0]
HandlerFrame == [kind |-> "handler", mw |-> NoMiddleware, chain |-> 0, pc |-> 1]
MiddlewareFrame(m, c) == [kind |-> "mw", mw |-> m, chain |-> c, pc |-> 0]

\* one request to a route: the next closures created so far (chains), the
\* call stack, the functions invoked in order (calls), the stores of the
\* AsyncLocalStorage in force (scopes) and the Maps they refer to (maps)
IdleRun ==
  [state |-> "idle", chains |-> << >>, stack |-> << >>, calls |-> << >>,
   scopes |-> << >>, maps |-> << >>, ret |-> None, result |-> None]

NoRoute == [middlewares |-> << >>, body |-> << >>]

Top(e) == e.stack[Len(e.stack)]

\* contextStore.getStore(): the number of the Map in force, 0 for undefined
getStore(e) == IF e.scopes = << >> THEN 0 ELSE e.scopes[Len(e.scopes)].map

\* alternative in which the nested scope is given the Map of its parent
RunWithContextShared(e) ==
  IF getStore(e) = 0
  THEN [e EXCEPT !.maps = Append(@, EmptyMap),
                 !.scopes = Append(@, [map |-> Len(e.maps) + 1, parent |-> None])]
  ELSE [e EXCEPT !.scopes = Append(@, [map |-> getStore(e),
                                       parent |-> e.maps[getStore(e)]])]

\* runWithContext up to the call of fn: new Map(currentStore) or new Map(),
\* then contextStore.run(newStore, fn); each scope remembers what its parent
\* held when it was opened
runWithContext(e) ==
  [e EXCEPT !.maps = Append(@, IF getStore(e) = 0 THEN EmptyMap
                               ELSE e.maps[getStore(e)]),
            !.scopes = Append(@, [map |-> Len(e.maps) + 1,
                                  parent |-> IF getStore(e) = 0 THEN None
                                             ELSE e.maps[getStore(e)]])]

\* contextStore.run returns: the store in force is the outer one again
ExitScope(e) == [e EXCEPT !.scopes = SubSeq(@, 1, Len(@) - 1)]

\* an exception leaves every frame of the request
Throw(e, error) ==
  [e EXCEPT !.state = "threw", !.result = error, !.stack = << >>, !.scopes = << >>]

setContext(e, k, v) ==
  IF getStore(e) = 0 THEN Throw(e, ScopeError)
  ELSE [e EXCEPT !.maps[getStore(e)] = MapSet(@, k, v)]

clearContext(e, k) ==
  IF getStore(e) = 0 THEN e
  ELSE [e EXCEPT !.maps[getStore(e)] = MapDelete(@, k)]

\* the function on top of the stack returns value to its caller
Return(e, value) ==
  IF Len(e.stack) = 1
  THEN [e EXCEPT !.stack = << >>, !.state = "done", !.result = value, !.ret = value]
  ELSE [e EXCEPT !.stack = SubSeq(@, 1, Len(@) - 1), !.ret = value]

Invoke(e, id, frame) ==
  [e EXCEPT !.calls = Append(@, id), !.stack = Append(@, frame)]

\* alternative in which next calls the middlewares from the last to the first
RECURSIVE NextReversed(_, _)
NextReversed(e, c) ==
  IF e.chains[c].index < Len(e.chains[c].mws)
  THEN Invoke([e EXCEPT !.chains[c].index = @ + 1],
              e.chains[c].mws[Len(e.chains[c].mws) - e.chains[c].index].id,
              MiddlewareFrame(e.chains[c].mws[Len(e.chains[c].mws) - e.chains[c].index], c))
  ELSE IF e.chains[c].final = 0
  THEN Invoke(e, HandlerId, HandlerFrame)
  ELSE NextReversed(e, e.chains[c].final)

\* the closure next of wrapWithMiddleware (final = 0: handler(req, server))
\* and of composeMiddlewares (final = the chain whose next is finalNext)
RECURSIVE next(_, _)
next(e, c) ==
  IF e.chains[c].index < Len(e.chains[c].mws)
  THEN Invoke([e EXCEPT !.chains[c].index = @ + 1],
              e.chains[c].mws[e.chains[c].index + 1].id,
              MiddlewareFrame(e.chains[c].mws[e.chains[c].index + 1], c))
  ELSE IF e.chains[c].final = 0
  THEN Invoke(e, HandlerId, HandlerFrame)
  ELSE next(e, e.chains[c].final)

NewChain(e, mws, final) ==
  [e EXCEPT !.chains = Append(@, [mws |-> mws, index |-> 0, final |-> final])]

\* wrapRouteValue: a route value is wrapped only when middlewares are given
wrapRouteValue(middlewares) == Len(middlewares) # 0

\* the function returned by wrapWithMiddleware is called with a request
wrapWithMiddleware(e, middlewares) ==
  IF Len(middlewares) = 0
  THEN Invoke([runWithContext(e) EXCEPT !.state = "running", !.stack = <<RouteFrame>>],
              HandlerId, HandlerFrame)
  ELSE next(NewChain([runWithContext(e) EXCEPT !.state = "running",
                                               !.stack = <<RouteFrame>>],
                     middlewares, 0), 1)

\* Bun calls the value registered for the route
Dispatch(e, r) ==
  IF wrapRouteValue(r.middlewares)
  THEN wrapWithMiddleware(e, r.middlewares)
  ELSE Invoke([e EXCEPT !.state = "running"], HandlerId, HandlerFrame)

\* the function returned by composeMiddlewares(...inner), called with the
\* next of chain c as finalNext
composeMiddlewares(e, inner, c) == next(NewChain(e, inner, c), Len(e.chains) + 1)

SetPc(e, pc) == [e EXCEPT !.stack[Len(e.stack)].pc = pc]

\* the middleware on top of the stack runs up to its next call or return
MiddlewareStep(e) ==
  LET f == Top(e) IN
  IF f.pc = 0
  THEN IF f.mw.kind = "stop" THEN Return(e, f.mw.id)
       ELSE IF f.mw.kind = "composed"
       THEN composeMiddlewares(SetPc(e, 1), f.mw.inner, f.chain)
       ELSE next(SetPc(e, 1), f.chain)
  ELSE IF f.pc = 1 /\ f.mw.kind = "twice"
  THEN next(SetPc(e, 2), f.chain)
  ELSE Return(e, e.ret)

\* the handler on top of the stack runs its next statement
HandlerStep(e, body) ==
  LET pc == Top(e).pc IN
  IF pc > Len(body) THEN Return(e, HandlerId)
  ELSE IF body[pc].op = "set"
  THEN IF getStore(e) = 0 THEN setContext(e, body[pc].key, body[pc].value)
       ELSE setContext(SetPc(e, pc + 1), body[pc].key, body[pc].value)
  ELSE IF body[pc].op = "clear" THEN clearContext(SetPc(e, pc + 1), body[pc].key)
  ELSE IF body[pc].op = "enter" THEN runWithContext(SetPc(e, pc + 1))
  ELSE ExitScope(SetPc(e, pc + 1))

(***************************************************************************)
(* Construction                                                            *)
(***************************************************************************)
InitialFiles ==
  [f \in {fileA, fileC, fileSibling, fileAbove} |->
     [size |-> 1, mtimeMs |-> 1, content |-> 1, past |-> {}]]

\* Bun.Glob("**/*.{ts,tsx,js,jsx}") under absSourcePath
Scanned(fs) ==
  {f \in DOMAIN fs : /\ InsideTree(f, absSourcePath)
                     /\ \E i \in 1..Len(possibleExtensions) :
                          EndsWith(f, possibleExtensions[i])}

\* the trusted set after construction: prewarm, the keys of globals, the
\* names of the files in cacheDir, the bare imports of the scanned sources
TrustedAtConstruction(pw, d, fs) ==
  LET seeded == pw \cup globals
      cached == RegisterAll(seeded,
                  {ReplaceDoubleUnderscores(SliceDropLast(f, 3)) : f \in DOMAIN d})
  IN  RegisterAll(cached, UNION {ImportsOf(f, fs[f].content) : f \in Scanned(fs)})

\* alternative in which the builds of the prewarm list are started without
\* being registered in the job map
RECURSIVE PrewarmUnregistered(_, _, _, _)
PrewarmUnregistered(names, ab, js, d) ==
  IF names = {} THEN [ab |-> ab, jobs |-> js]
  ELSE LET n == CHOOSE n \in names : TRUE
           b == bundleVendorModule(n, ab, js, d, 0)
       IN  PrewarmUnregistered(names \ {n}, ab, b.jobs, d)

\* the prewarm loop: bundleVendorModule(moduleName) for each name, not awaited
RECURSIVE PrewarmAll(_, _, _, _)
PrewarmAll(names, ab, js, d) ==
  IF names = {} THEN [ab |-> ab, jobs |-> js]
  ELSE LET n == CHOOSE n \in names : TRUE
           b == bundleVendorModule(n, ab, js, d, 0)
       IN  PrewarmAll(names \ {n}, b.ab, b.jobs, d)

WarmDisk == [f \in {cachedFile(pkgD)} |-> <<"bundle", pkgD, 0>>]

\* cacheDir as an earlier instance left it after bundling pkgU
EscapedDisk == [f \in {cachedFile(pkgU)} |-> <<"bundle", pkgU, 0>>]

\* the configurations and environments a gateway is constructed in, each
\* with the requests it then receives
Setups ==
  {[cdn |-> c, prewarm |-> {}, disk |-> EmptyMap, editable |-> {}, workload |-> w] :
     c \in BOOLEAN, w \in {VendorLoad, PathLoad}}
  \cup {[cdn |-> c, prewarm |-> {}, disk |-> EmptyMap, editable |-> Touchable,
         workload |-> LocalLoad] : c \in BOOLEAN}
  \cup {[cdn |-> c, prewarm |-> {pkgP}, disk |-> WarmDisk, editable |-> {},
         workload |-> WarmLoad] : c \in BOOLEAN}
  \cup {[cdn |-> FALSE, prewarm |-> {}, disk |-> EmptyMap, editable |-> {},
         workload |-> MissLoad]}
  \cup {[cdn |-> c, prewarm |-> {}, disk |-> EscapedDisk, editable |-> {},
         workload |-> EscapedLoad] : c \in BOOLEAN}
  \cup {[cdn |-> c, prewarm |-> {}, disk |-> EmptyMap, editable |-> Touchable,
         workload |-> DiscoverLoad] : c \in BOOLEAN}

Init ==
  /\ \E s \in Setups :
       /\ cdnFallback = s.cdn
       /\ prewarm = s.prewarm
       /\ disk = s.disk
       /\ editable = s.editable
       /\ workload = s.workload
  /\ files = InitialFiles
  /\ touches = 0
  /\ trustedDependencies = TrustedAtConstruction(prewarm, disk, files)
  /\ LET pw == PrewarmAll(prewarm, EmptyMap, << >>, disk)
     IN  /\ activeBundles = pw.ab
         /\ jobs = pw.jobs
  /\ reqs = [r \in Reqs |-> IdleReq]
  /\ transpiledCode = << >>
  /\ finalCode = None
  /\ edits = << >>
  /\ resolutions = {}
  /\ route = NoRoute
  /\ run = IdleRun

Next ==
  \/ \E r \in Reqs, input \in workload : Arrive(r, input)
  \/ \E j \in 1..Len(jobs), o \in Outcomes, res \in BOOLEAN : VendorBuildDone(j, o, res)
  \/ \E j \in 1..Len(jobs) : WriteBegin(j)
  \/ \E j \in 1..Len(jobs), ok \in BOOLEAN : WriteDone(j, ok)
  \/ \E j \in 1..Len(jobs), o \in Outcomes : LocalBuildDone(j, o)
  \/ \E f \in editable, sz \in 1..2, mt \in 1..(1 + MaxTouches) : Touch(f, sz, mt)
  \/ \E r \in Reqs : Disconnect(r)

Spec == Init /\ [][Next]_vars

\* a build or a write that has started returns
Completion ==
  \/ \E j \in 1..Len(jobs), o \in Outcomes, res \in BOOLEAN : VendorBuildDone(j, o, res)
  \/ \E j \in 1..Len(jobs) : WriteBegin(j)
  \/ \E j \in 1..Len(jobs), ok \in BOOLEAN : WriteDone(j, ok)
  \/ \E j \in 1..Len(jobs), o \in Outcomes : LocalBuildDone(j, o)

\* the gateway when Bun.build and Bun.write always return
SpecFair == Init /\ [][Next]_vars /\ WF_vars(Completion)

(***************************************************************************)
(* The import rewriter on its own: a compiled module goes through the      *)
(* replace of the local build                                              *)
(***************************************************************************)
\* statements as the compiler prints them
StmtImportFrom  == <<"import", " ", "x", " ", "from", " ", DQ, "p", DQ>>
StmtImportBare  == <<"import", " ", DQ, "p", DQ>>
StmtImportCall  == <<"import", "(", DQ, "p", DQ, ")">>
StmtExportFrom  == <<"export", " ", "x", " ", "from", " ", SQ, ".", "/", "u", SQ>>
StmtExportNames == <<"export", " ", "x">>
StmtImportGlobal == <<"import", " ", "x", " ", "from", " ", DQ, "g", DQ>>
StmtImportMissing == <<"import", " ", "x", " ", "from", " ", DQ, "n", DQ>>
StmtImportInherited == <<"import", " ", "x", " ", "from", " ", DQ, "constructor", DQ>>
StmtImportWithExt == <<"import", " ", "x", " ", "from", " ", DQ, ".", "/", "u", ".", "j", "s", DQ>>
StmtImportRooted == <<"import", " ", "x", " ", "from", " ", DQ, "/", "u", DQ>>
StmtImportUrl   == <<"import", " ", "x", " ", "from", " ", DQ, "/", "/", "c", DQ>>
StmtStringFrom  == <<"x", "=", SQ, "from", " ", DQ, "p", DQ, SQ>>
StmtString      == <<"x", "=", DQ, "p", DQ>>
StmtLineComment == <<"/", "/", "from", " ", DQ, "p", DQ, "\n", "x">>
StmtBlockComment == <<"/", "*", "import", "(", DQ, "p", DQ, ")", "*", "/", "x">>

Statements ==
  {StmtImportFrom, StmtImportBare, StmtImportCall, StmtExportFrom,
   StmtExportNames, StmtImportUrl, StmtStringFrom, StmtString,
   StmtLineComment, StmtBlockComment, StmtImportGlobal, StmtImportMissing,
   StmtImportInherited, StmtImportWithExt, StmtImportRooted}

\* the modules of up to n statements, separated by semicolons
RECURSIVE Programs(_)
Programs(n) ==
  IF n = 1 THEN Statements
  ELSE Programs(n - 1)
         \cup {prog \o <<";">> \o st : prog \in Programs(n - 1), st \in Statements}

\* the bare names the callback hands to resolveModulePath
BareNames(code, ms) ==
  {SubSeq(code, ms[k].from, ms[k].to) : k \in
     {k \in 1..Len(ms) :
        /\ ~ms[k].literal
        /\ ~IsUrl(SubSeq(code, ms[k].from, ms[k].to))
        /\ ~StartsWith(SubSeq(code, ms[k].from, ms[k].to), <<".">>)
        /\ ~StartsWith(SubSeq(code, ms[k].from, ms[k].to), <<"/">>)}}

\* transpiledCode.replace(tokenRegex, ...) of the local build
RewriteImports ==
  /\ finalCode = None
  /\ \E rw \in {RewriteCode(transpiledCode, cdnFallback)} :
       /\ finalCode' = rw.finalCode
       /\ edits' = rw.edits
  /\ trustedDependencies' =
       ResolveAll(trustedDependencies,
                  BareNames(transpiledCode, Matches(transpiledCode, 1)), cdnFallback)
  /\ resolutions' =
       {[name |-> n, result |-> resolveModulePath(trustedDependencies, n, cdnFallback).path] :
          n \in BareNames(transpiledCode, Matches(transpiledCode, 1))}
  /\ UNCHANGED <<transpiledCode, gatewayVars>>
  /\ UNCHANGED routeVars

InitRewrite ==
  /\ cdnFallback \in BOOLEAN
  /\ prewarm = {}
  /\ disk = EmptyMap
  /\ editable = {}
  /\ workload = {}
  /\ files = InitialFiles
  /\ touches = 0
  /\ trustedDependencies = TrustedAtConstruction(prewarm, disk, files)
  /\ activeBundles = EmptyMap
  /\ jobs = << >>
  /\ reqs = [r \in Reqs |-> IdleReq]
  /\ transpiledCode \in Programs(MaxStatements)
  /\ finalCode = None
  /\ edits = << >>
  /\ resolutions = {}
  /\ route = NoRoute
  /\ run = IdleRun

NextRewrite == RewriteImports

SpecRewrite == InitRewrite /\ [][NextRewrite]_vars

(***************************************************************************)
(* A route on its own: one request goes through the value createRoute      *)
(* registered                                                              *)
(***************************************************************************)
InitRoute ==
  /\ cdnFallback = FALSE
  /\ prewarm = {}
  /\ disk = EmptyMap
  /\ editable = {}
  /\ workload = {}
  /\ files = InitialFiles
  /\ touches = 0
  /\ trustedDependencies = TrustedAtConstruction(prewarm, disk, files)
  /\ activeBundles = EmptyMap
  /\ jobs = << >>
  /\ reqs = [r \in Reqs |-> IdleReq]
  /\ transpiledCode = << >>
  /\ finalCode = None
  /\ edits = << >>
  /\ resolutions = {}
  /\ route \in [middlewares : MiddlewareLists(MaxMiddlewares), body : Bodies]
  /\ run = IdleRun

RouteFrameVars == <<cdnFallback, prewarm, trustedDependencies, activeBundles, jobs,
                    disk, files, touches, editable, workload, reqs, transpiledCode,
                    finalCode, edits, resolutions, route>>

\* a request for the route arrives
Request ==
  /\ run.state = "idle"
  /\ run' = Dispatch(run, route)
  /\ UNCHANGED RouteFrameVars

MiddlewareRuns ==
  /\ run.state = "running"
  /\ Top(run).kind = "mw"
  /\ run' = MiddlewareStep(run)
  /\ UNCHANGED RouteFrameVars

HandlerRuns ==
  /\ run.state = "running"
  /\ Top(run).kind = "handler"
  /\ run' = HandlerStep(run, route.body)
  /\ UNCHANGED RouteFrameVars

\* the callback given to _runWithContext has returned
ScopeExits ==
  /\ run.state = "running"
  /\ Top(run).kind = "route"
  /\ run' = Return(ExitScope(run), run.ret)
  /\ UNCHANGED RouteFrameVars

NextRoute == Request \/ MiddlewareRuns \/ HandlerRuns \/ ScopeExits

SpecRoute == InitRoute /\ [][NextRoute]_vars

(***************************************************************************)
(* Properties of the gateway                                               *)
(***************************************************************************)
Done(r) == reqs[r].pc = "done"

Ok200(resp) == resp.kind = "response" /\ resp.status = 200

\* the requests that consulted the job map for key k while no job for k
\* had settled
FirstWave(k) == {r \in Reqs : reqs[r].pc # "idle" /\ reqs[r].key = k /\ reqs[r].gen = 0}

\* the compiler invocations for key k started while no job for k had settled
FirstWaveCompiles(k) ==
  {j \in 1..Len(jobs) : jobs[j].key = k /\ jobs[j].gen = 0 /\ jobs[j].compiled}

StartedJobs(r) == {j \in 1..Len(jobs) : jobs[j].by = r}

C2_OnlyTrustedBundled ==
  \A j \in 1..Len(jobs) :
    (jobs[j].kind = "vendor" /\ jobs[j].compiled /\ jobs[j].by # 0)
    => reqs[jobs[j].by].gate = "trusted"

\* C3: a vendor request for a name that is not trusted and has no persisted
\* entry is delegated to the next handler when CDN fallback is off and is
\* redirected to the mirror URL of that name when it is on.
C3_TrustGateOutcome ==
  \A r \in Reqs :
    (/\ Done(r) /\ reqs[r].kind = "vendor" /\ reqs[r].gate = "untrusted"
     /\ cachedFile(reqs[r].moduleName) \notin DOMAIN reqs[r].onDisk)
    => reqs[r].resp = IF cdnFallback THEN RespRedirect(reqs[r].moduleName)
                      ELSE RespNext

\* the path a request target would name if its segments were joined to the
\* source root as the client wrote them
JoinedAsWritten(target) == PathJoin(absSourcePath, SliceFrom(target, Len(basePrefix)))

Escapes(target) ==
  /\ target # None
  /\ StartsWith(target, basePrefix)
  /\ ~StartsWith(target, vendorPrefix)
  /\ ~InsideTree(JoinedAsWritten(target), absSourcePath)

\* C4: every path the gateway hands to existsSync, statSync or the compiler
\* lies inside the tree of the source root, and a request whose path as
\* written leaves that tree is delegated to the next handler.
C4_Jail ==
  \A r \in Reqs :
    /\ \A p \in reqs[r].probes : InsideTree(p, absSourcePath)
    /\ reqs[r].sourceFile # None => InsideTree(reqs[r].sourceFile, absSourcePath)
    /\ (Done(r) /\ Escapes(reqs[r].target)) => reqs[r].resp = RespNext

\* a request whose path as written names an existing file in the sibling
\* directory has been answered
C4_Witness ==
  \E r \in Reqs :
    /\ Done(r)
    /\ Escapes(reqs[r].target)
    /\ \E i \in 1..Len(possibleExtensions) :
         SliceDropLast(JoinedAsWritten(reqs[r].target), 3) \o possibleExtensions[i]
           = fileSibling
    /\ reqs[r].resp = RespNext

\* C6: a request for an existing local file whose If-None-Match equals the
\* validator of the file at that moment gets 304 with no body and starts
\* no compiler invocation.
C6_FreshnessFastPath ==
  \A r \in Reqs :
    (/\ reqs[r].pc # "idle" /\ reqs[r].kind = "local"
     /\ reqs[r].sourceFile # None /\ reqs[r].inm = reqs[r].etag)
    => /\ Done(r)
       /\ reqs[r].resp = RespNotModified
       /\ reqs[r].resp.body = None
       /\ StartedJobs(r) = {}
       /\ reqs[r].job = 0

\* a conditional request hit the fast path after the file had been modified
C6_Witness ==
  \E r \in Reqs :
    /\ Done(r) /\ reqs[r].kind = "local" /\ reqs[r].inm = reqs[r].etag
    /\ reqs[r].etag = fastEtag(2, 2, minify)
    /\ reqs[r].resp.status = 304

\* C7: a request for a trusted vendor package whose persisted entry exists
\* is answered 200 with the persisted content and the immutable
\* cache-control, starts no compiler invocation and registers no job.
C7_CacheReuse ==
  \A r \in Reqs :
    (/\ reqs[r].pc # "idle" /\ reqs[r].kind = "vendor" /\ reqs[r].gate = "trusted"
     /\ cachedFile(reqs[r].moduleName) \in DOMAIN reqs[r].onDisk)
    => /\ Done(r)
       /\ Ok200(reqs[r].resp)
       /\ reqs[r].resp.body = reqs[r].onDisk[cachedFile(reqs[r].moduleName)]
       /\ reqs[r].resp.cacheControl = ImmutableCacheControl
       /\ StartedJobs(r) = {}
       /\ reqs[r].job = 0 /\ reqs[r].key = None

\* a package built for an earlier request was then served from cacheDir
C7_Witness ==
  \E r \in Reqs :
    /\ Done(r) /\ reqs[r].kind = "vendor" /\ reqs[r].gate = "trusted"
    /\ cachedFile(reqs[r].moduleName) \in DOMAIN reqs[r].onDisk
    /\ \E j \in 1..Len(jobs) : reqs[r].resp.body = <<"bundle", reqs[r].moduleName, j>>

\* C8: when the compiler fails for a local file, every request that awaited
\* that build is answered 200 with the script content type and the
\* diagnostic script.
C8_FailureIsDiagnostic ==
  \A r \in Reqs :
    (/\ Done(r) /\ reqs[r].kind = "local" /\ reqs[r].job # 0
     /\ jobs[reqs[r].job].state = "rejected")
    => reqs[r].resp = RespDiagnostic(reqs[r].sourceFile)

\* C9: the job map holds no entry for a job that has finished.
C9_FinishedJobsLeaveMap ==
  \A k \in DOMAIN activeBundles : ~Settled(jobs[activeBundles[k]])

\* C10: for every key at most one compiler invocation is in progress.
C10_OneCompilePerKey ==
  \A j \in 1..Len(jobs) : RunningCompiles(jobs, jobs[j].key) <= 1

\* a second request for a key found the build of the first in progress
C10_Witness ==
  \E r \in Reqs :
    /\ reqs[r].pc = "waiting" /\ reqs[r].role = "joiner"
    /\ jobs[reqs[r].job].state = "building"
    /\ jobs[reqs[r].job].by \in Reqs

(***************************************************************************)
(* Properties of the import rewriter                                       *)
(***************************************************************************)
\* the string literals and comments of a module, left to right
RECURSIVE Literals(_, _)
Literals(code, i) ==
  IF i > Len(code) THEN << >>
  ELSE IF MatchLiteral(code, i).ok
       THEN <<[from |-> i, to |-> MatchLiteral(code, i).last]>>
              \o Literals(code, MatchLiteral(code, i).last + 1)
       ELSE Literals(code, i + 1)

\* the last position before i that is not white space, 0 when there is none
PrevToken(code, i) ==
  IF \E k \in 1..(i - 1) : code[k] \notin Blank
  THEN CHOOSE k \in 1..(i - 1) :
         code[k] \notin Blank /\ \A m \in (k + 1)..(i - 1) : code[m] \in Blank
  ELSE 0

\* a string literal that is the specifier of an import, an export or a
\* dynamic import
RealSpecifier(code, lit) ==
  /\ code[lit.from] \in Quotes
  /\ PrevToken(code, lit.from) > 0
  /\ \/ code[PrevToken(code, lit.from)] \in {"from", "import"}
     \/ /\ code[PrevToken(code, lit.from)] = "("
        /\ PrevToken(code, PrevToken(code, lit.from)) > 0
        /\ code[PrevToken(code, PrevToken(code, lit.from))] = "import"

\* how far the text at position i of the input has moved in the output
RECURSIVE ShiftBefore(_, _)
ShiftBefore(es, i) ==
  IF Len(es) = 0 \/ Head(es).to >= i THEN 0
  ELSE Len(Head(es).text) - (Head(es).to - Head(es).from + 1)
         + ShiftBefore(Tail(es), i)

\* the literal or comment stands in the output exactly as in the input
ByteIdentical(lit) ==
  /\ \A k \in 1..Len(edits) : edits[k].to < lit.from \/ edits[k].from > lit.to
  /\ SubSeq(finalCode, lit.from + ShiftBefore(edits, lit.from),
            lit.to + ShiftBefore(edits, lit.from))
       = SubSeq(transpiledCode, lit.from, lit.to)

OtherLiterals ==
  {k \in 1..Len(Literals(transpiledCode, 1)) :
     ~RealSpecifier(transpiledCode, Literals(transpiledCode, 1)[k])}

\* C5: once a compiled module has been rewritten, every string literal and
\* comment that is not an import, export or dynamic-import specifier is
\* byte-identical in the result, and every specifier the rewriter changed is
\* such a real specifier.
C5_LiteralsUntouched ==
  finalCode # None =>
    /\ \A k \in OtherLiterals : ByteIdentical(Literals(transpiledCode, 1)[k])
    /\ \A e \in 1..Len(edits) :
         \E k \in 1..Len(Literals(transpiledCode, 1)) :
           /\ RealSpecifier(transpiledCode, Literals(transpiledCode, 1)[k])
           /\ Literals(transpiledCode, 1)[k].from + 1 = edits[e].from
           /\ Literals(transpiledCode, 1)[k].to - 1 = edits[e].to

(***************************************************************************)
(* Properties of persistence                                               *)
(***************************************************************************)
\* the bundle job j produced
BuiltContent(j) == <<"bundle", jobs[j].subject, j>>

\* C11: when a vendor build succeeded and the write of its bundle failed,
\* every request that awaited the job is answered 200 with the built
\* content, and the failed job leaves neither a map entry nor a persisted
\* file behind, so that the next request for the package builds again.
C11_WriteFailureStillServes ==
  \A j \in 1..Len(jobs) :
    jobs[j].write = "failed"
    => /\ \A r \in Reqs :
            (Done(r) /\ reqs[r].job = j)
            => Ok200(reqs[r].resp) /\ reqs[r].resp.body = BuiltContent(j)
       /\ ~(HasActiveBundle(activeBundles, jobs[j].key) /\ activeBundles[jobs[j].key] = j)
       /\ (ExistsInCache(disk, cachedFile(jobs[j].subject))
           => disk[cachedFile(jobs[j].subject)] # <<"partial", jobs[j].subject, j>>)

(***************************************************************************)
(* Properties of validators                                                *)
(***************************************************************************)
\* a request answered 200 with the output of a successful local build
Built200(r) ==
  /\ Done(r) /\ reqs[r].kind = "local" /\ reqs[r].job # 0
  /\ jobs[reqs[r].job].state = "resolved"
  /\ Ok200(reqs[r].resp)

StatEtag(r) == fastEtag(reqs[r].stat.size, reqs[r].stat.mtimeMs, minify)

\* C12: every 200 response for a built local file carries the validator of
\* the size, modification time and minify flag the handler read, and a
\* Cache-Control header; a request that sends that ETag as If-None-Match
\* gets 304 when size and modification time are what they were, and when
\* either differs it awaits a build and is answered 200 with the new
\* validator.
C12_EtagRoundTrip ==
  /\ \A r \in Reqs :
       Built200(r) => /\ reqs[r].resp.etag = StatEtag(r)
                      /\ reqs[r].resp.cacheControl # ""
  /\ \A r1 \in Reqs, r2 \in Reqs :
       (/\ Built200(r1)
        /\ reqs[r2].pc # "idle" /\ reqs[r2].kind = "local"
        /\ reqs[r2].sourceFile = reqs[r1].sourceFile
        /\ reqs[r2].inm = reqs[r1].resp.etag)
       => IF reqs[r2].stat = reqs[r1].stat
          THEN Done(r2) /\ reqs[r2].resp = RespNotModified
          ELSE /\ reqs[r2].resp.status # 304
               /\ reqs[r2].job # 0
               /\ (Done(r2) /\ jobs[reqs[r2].job].state = "resolved")
                  => /\ Ok200(reqs[r2].resp)
                     /\ reqs[r2].resp.etag = StatEtag(r2)
                     /\ reqs[r2].resp.body = jobs[reqs[r2].job].result

\* the ETag of a 200 response came back twice: before the file was modified
\* (304) and after (200 with another ETag)
C12_Witness ==
  \E r1 \in Reqs, r2 \in Reqs, r3 \in Reqs :
    /\ Built200(r1) /\ Built200(r3) /\ Done(r2)
    /\ reqs[r2].inm = reqs[r1].resp.etag /\ reqs[r2].resp.status = 304
    /\ reqs[r3].inm = reqs[r1].resp.etag
    /\ reqs[r3].sourceFile = reqs[r1].sourceFile
    /\ reqs[r3].resp.etag # reqs[r1].resp.etag

(***************************************************************************)
(* Properties of the trusted set                                           *)
(***************************************************************************)
\* C13: the trusted set only grows: every step keeps every name that was in
\* the set before it.
C13_TrustOnlyGrows == [][trustedDependencies \subseteq trustedDependencies']_vars

\* a package found while another was bundled has joined the names trusted
\* since construction
C13_Witness ==
  /\ pkgQ \in trustedDependencies
  /\ pkgQ \notin TrustedAtConstruction(prewarm, EmptyMap, InitialFiles)
  /\ TrustedAtConstruction(prewarm, EmptyMap, InitialFiles) \subseteq trustedDependencies
  /\ \E j \in 1..Len(jobs) : jobs[j].subject = pkgP /\ jobs[j].state # "building"

(***************************************************************************)
(* Properties of keys                                                      *)
(***************************************************************************)
VendorReqs == {r \in Reqs : reqs[r].pc # "idle" /\ reqs[r].kind = "vendor"}

\* C14: two vendor requests for different package names never have the same
\* cache key or the same persisted file name, and the key of a vendor
\* package is never the key of a local file.
C14_KeysInjective ==
  /\ \A r1 \in VendorReqs, r2 \in VendorReqs :
       reqs[r1].moduleName # reqs[r2].moduleName
       => /\ cacheKey(reqs[r1].moduleName) # cacheKey(reqs[r2].moduleName)
          /\ cachedFile(reqs[r1].moduleName) # cachedFile(reqs[r2].moduleName)
  /\ \A r1 \in VendorReqs, j \in 1..Len(jobs) :
       jobs[j].kind = "local" => cacheKey(reqs[r1].moduleName) # jobs[j].key

\* C15: every package name an earlier instance persisted is in the trusted
\* set of the instance constructed over that cache directory, and with CDN
\* fallback off a request for it is answered 200 with the persisted file.
C15_WarmCacheServable ==
  \A f \in DOMAIN disk :
    (disk[f][1] = "bundle" /\ disk[f][3] = 0)
    => /\ disk[f][2] \in trustedDependencies
       /\ \A r \in VendorReqs :
            (Done(r) /\ ~cdnFallback /\ reqs[r].moduleName = disk[f][2])
            => reqs[r].resp = RespVendor(disk[f])

(***************************************************************************)
(* Properties of the vendor module resolver and the rewriting rules        *)
(***************************************************************************)
\* C16: for every bare name passed to resolveModulePath: a key of globals
\* stays the bare name; otherwise a locally resolvable name becomes the
\* vendor path; otherwise the result is the mirror URL when CDN fallback is
\* on and the same vendor path when it is off.
C16_ResolutionResult ==
  \A c \in resolutions :
    c.result = IF c.name \in globals THEN c.name
               ELSE IF c.name \in Installed THEN basePrefix \o vendorPath \o <<"/">> \o c.name
               ELSE IF cdnFallback
               THEN <<"h", "t", "t", "p", "s", ":", "/", "/", "e", "s", "m", ".", "s", "h", "/">>
                      \o c.name
               ELSE basePrefix \o vendorPath \o <<"/">> \o c.name

\* the specifiers of the imports, exports and dynamic imports of a module
Specifiers(code) ==
  {k \in 1..Len(Literals(code, 1)) : RealSpecifier(code, Literals(code, 1)[k])}

\* what the rewriting rules make of a specifier
Rewritten(path, cdn) ==
  IF IsUrl(path) THEN path
  ELSE IF Head(path) \notin {".", "/"} THEN resolveModulePath({}, path, cdn).path
  ELSE IF Head(path) = "." /\ ~Includes(Split(path, "/")[Len(Split(path, "/"))], ".")
  THEN path \o <<".", "j", "s">>
  ELSE path

\* the text of the result where the specifier lit of the input stood
ResultAt(lit, len) ==
  SubSeq(finalCode, lit.from + 1 + ShiftBefore(edits, lit.from + 1),
         lit.from + len + ShiftBefore(edits, lit.from + 1))

\* C17: in the rewritten module every import, export and dynamic-import
\* specifier outside literals and comments reads as the rules say: an
\* absolute URL unchanged, a bare specifier replaced by the resolver's
\* result, a relative specifier without extension with .js appended, every
\* other specifier unchanged.
C17_RewritingRules ==
  finalCode # None =>
    \A k \in Specifiers(transpiledCode) :
      LET lit  == Literals(transpiledCode, 1)[k]
          want == Rewritten(SubSeq(transpiledCode, lit.from + 1, lit.to - 1), cdnFallback)
      IN  /\ lit.from + Len(want) + 1 + ShiftBefore(edits, lit.from + 1)
                <= Len(finalCode)
          /\ ResultAt(lit, Len(want) + 1) = want \o <<transpiledCode[lit.to]>>

(***************************************************************************)
(* Properties of misses                                                    *)
(***************************************************************************)
\* a vendor request stopped at the gate
Untrusted(r) ==
  Done(r) /\ reqs[r].kind = "vendor" /\ reqs[r].gate = "untrusted" /\ ~cdnFallback

\* a local request whose path as written leaves the source root
Escaped(r) == Done(r) /\ Escapes(reqs[r].target)

\* a local request for a file that does not exist inside the source root
Missing(r) ==
  /\ Done(r) /\ reqs[r].kind = "local" /\ ~Escapes(reqs[r].target)
  /\ reqs[r].sourceFile = None

\* C18: with CDN fallback off, requests for untrusted packages get the same
\* response, the delegation to the next handler, whether the package is
\* installed or not, and a request whose path leaves the source root gets
\* the same response as a request for a file that does not exist; none of
\* them starts a build.
C18_MissesAlike ==
  /\ \A r1 \in Reqs, r2 \in Reqs :
       (Untrusted(r1) /\ Untrusted(r2)) => reqs[r1].resp = reqs[r2].resp
  /\ \A r1 \in Reqs, r2 \in Reqs :
       (Escaped(r1) /\ Missing(r2)) => reqs[r1].resp = reqs[r2].resp
  /\ \A r \in Reqs :
       (Untrusted(r) \/ Escaped(r) \/ Missing(r))
       => reqs[r].resp = RespNext /\ StartedJobs(r) = {} /\ reqs[r].job = 0
  /\ \A r \in Reqs : Escapes(reqs[r].target) => reqs[r].pc = "done"

\* an untrusted installed package, a path into the sibling directory and a
\* missing file were requested from one instance
C18_Witness ==
  \E r1 \in Reqs, r2 \in Reqs, r3 \in Reqs :
    /\ Untrusted(r1) /\ reqs[r1].moduleName \in Installed
    /\ Escaped(r2) /\ reqs[r2].target = targetSibling
    /\ Missing(r3)

\* job slots a run can fill: each request starts at most one job, prewarm
\* one per listed package
JobSlots == 1..(MaxReqs + Cardinality(UNION {s.prewarm : s \in Setups}))

Started(j) == j <= Len(jobs)

\* a vendor job whose build succeeded and whose write returned
Persisted(j) == jobs[j].kind = "vendor" /\ jobs[j].write = "done"

\* a request for the module of job j that found the entry of job j on disk
ArrivedAfter(r, j) ==
  /\ reqs[r].pc # "idle" /\ reqs[r].kind = "vendor" /\ reqs[r].gate = "trusted"
  /\ reqs[r].moduleName = jobs[j].subject
  /\ cachedFile(jobs[j].subject) \in DOMAIN reqs[r].onDisk
  /\ reqs[r].onDisk[cachedFile(jobs[j].subject)] = BuiltContent(j)

\* a disconnecting client changes no job, map entry, file or waiting request,
\* and a job changes only by advancing towards its completion
C19_JobsOnlyComplete ==
  /\ (\E r \in Reqs : reqs'[r].aborted # reqs[r].aborted)
     => /\ jobs' = jobs /\ activeBundles' = activeBundles /\ disk' = disk
        /\ \A r \in Reqs : reqs'[r].pc = reqs[r].pc /\ reqs'[r].job = reqs[r].job
  /\ \A j \in JobSlots :
    (Started(j) /\ ~Settled(jobs[j]))
    => \/ jobs'[j] = jobs[j]
       \/ /\ jobs[j].state = "building" /\ jobs'[j].state = "writing"
          /\ jobs'[j].write = "none"
       \/ /\ jobs[j].state = "writing" /\ jobs'[j].state = "writing"
          /\ jobs[j].write = "none" /\ jobs'[j].write = "open"
       \/ Settled(jobs'[j])

C19_PersistedIsServed ==
  \A j \in 1..Len(jobs) :
    Persisted(j)
    => /\ ExistsInCache(disk, cachedFile(jobs[j].subject))
       /\ disk[cachedFile(jobs[j].subject)] = BuiltContent(j)
       /\ j \in JobSlots
       /\ \A r \in Reqs :
            ArrivedAfter(r, j)
            => /\ Done(r) /\ Ok200(reqs[r].resp)
               /\ reqs[r].resp.body = BuiltContent(j)
               /\ reqs[r].job = 0

Writing(j) == jobs[j].kind = "vendor" /\ jobs[j].state = "writing"

\* request r found on disk the file that job j writes
SawEntryOf(r, j) ==
  /\ reqs[r].pc # "idle" /\ reqs[r].kind = "vendor" /\ reqs[r].gate = "trusted"
  /\ cachedFile(reqs[r].moduleName) = cachedFile(jobs[j].subject)
  /\ cachedFile(jobs[j].subject) \in DOMAIN reqs[r].onDisk

\* C20: for a vendor key no request reads the persisted file while the job
\* writing it is still in progress: while a vendor job is writing, no request
\* has found its file on disk, and no response carries a partly written file.
C20_NoReadDuringWrite ==
  \A j \in 1..Len(jobs), r \in Reqs :
    /\ ~(Writing(j) /\ SawEntryOf(r, j))
    /\ (Done(r) /\ reqs[r].resp.kind = "response")
       => reqs[r].resp.body # <<"partial", jobs[j].subject, j>>

\* the jobs whose write of cache file f returned
WritersOf(f) ==
  {j \in 1..Len(jobs) : jobs[j].kind = "vendor" /\ jobs[j].write = "done"
                        /\ cachedFile(jobs[j].subject) = f}

\* a file of the cache directory changes only when the one job that created
\* it completes its write
C21_EntryFrozen ==
  \A f \in DOMAIN disk :
    /\ f \in DOMAIN disk'
    /\ disk'[f] # disk[f]
       => \E j \in 1..Len(jobs) :
            /\ Writing(j) /\ jobs[j].write = "open" /\ cachedFile(jobs[j].subject) = f
            /\ disk[f] = <<"partial", jobs[j].subject, j>>
            /\ disk'[f] = BuiltContent(j)
            /\ jobs'[j].write = "done"

C21_OneWriter ==
  \A f \in DOMAIN disk :
    /\ Cardinality(WritersOf(f)) <= 1
    /\ \A j \in WritersOf(f) : disk[f] = BuiltContent(j)
    /\ \A j \in 1..Len(jobs) :
         (Writing(j) /\ jobs[j].write = "open" /\ cachedFile(jobs[j].subject) = f)
         => WritersOf(f) = {}

\* C21: write-once vendor cache. For every file of the cache directory at
\* most one job ever completes a write of it, the file then holds that job's
\* bundle, and no step removes a file or changes a file whose write has
\* completed.
C21_WriteOnce == []C21_OneWriter /\ [][C21_EntryFrozen]_vars

\* a job joined by a second request persisted its bundle and a request that
\* came afterwards found the entry and started no job
C21_Witness ==
  \E j \in 1..Len(jobs), r1, r2, r3 \in Reqs :
    /\ r1 # r2 /\ reqs[r1].job = j /\ reqs[r2].job = j
    /\ Persisted(j) /\ WritersOf(cachedFile(jobs[j].subject)) = {j}
    /\ ArrivedAfter(r3, j) /\ Done(r3) /\ reqs[r3].job = 0

(***************************************************************************)
(* Properties of routes and middlewares                                    *)
(***************************************************************************)
Middlewares == route.middlewares

\* a middleware that calls next() exactly once and returns what it gives: a
\* passing middleware, or a composition of passing middlewares
CallsOnce(m) ==
  \/ m.kind = "pass"
  \/ m.kind = "composed" /\ \A k \in 1..Len(m.inner) : m.inner[k].kind = "pass"

IsRouteLevel(id) == Len(id) = 1

\* the invocations of the route's own middlewares and of the handler
RouteLevelCalls == SelectSeq(run.calls, IsRouteLevel)

\* m1, ..., mn, handler
InOrder(n) == [i \in 1..(n + 1) |-> IF i <= n THEN <<i>> ELSE HandlerId]

\* C22: middleware ordering. For a route created with middlewares m1..mn of
\* which each calls next() once, the middlewares start in the order m1, ...,
\* mn and the handler after mn: at every moment the invocations so far are a
\* prefix of m1, ..., mn, handler, and a finished request has made all of them.
C22_MiddlewareOrder ==
  (Len(Middlewares) >= 1 /\ \A i \in 1..Len(Middlewares) : CallsOnce(Middlewares[i]))
  => /\ Len(RouteLevelCalls) <= Len(Middlewares) + 1
     /\ RouteLevelCalls = SubSeq(InOrder(Len(Middlewares)), 1, Len(RouteLevelCalls))
     /\ run.state = "done"
        => RouteLevelCalls = InOrder(Len(Middlewares)) /\ run.result = HandlerId

\* a finished request to a route with MaxMiddlewares middlewares, a passing
\* one and a composition of two passing ones
C22_Witness ==
  /\ Len(Middlewares) = MaxMiddlewares
  /\ \A i \in 1..Len(Middlewares) : CallsOnce(Middlewares[i])
  /\ \E i, k \in 1..Len(Middlewares) :
       /\ Middlewares[i].kind = "pass"
       /\ Middlewares[k].kind = "composed" /\ Len(Middlewares[k].inner) = 2
  /\ run.state = "done"
  /\ RouteLevelCalls = InOrder(MaxMiddlewares)

\* what the function with this identity does
KindOf(id) ==
  IF id = HandlerId THEN "handler"
  ELSE IF Len(id) = 1 THEN Middlewares[id[1]].kind
  ELSE Middlewares[id[1]].inner[id[2]].kind

\* C23: middleware short-circuit. When a middleware returns a response
\* without calling next(), nothing is invoked after it for that request,
\* neither a later middleware nor the handler, and the caller receives that
\* middleware's response; the same inside a composed middleware.
C23_ShortCircuit ==
  \A p \in 1..Len(run.calls) :
    KindOf(run.calls[p]) = "stop"
    => /\ p = Len(run.calls)
       /\ run.state = "done" => run.result = run.calls[p]

(***************************************************************************)
(* Properties of context scopes                                            *)
(***************************************************************************)
\* the values of the scope at depth i of the scopes in force
ValuesOf(e, i) == e.maps[e.scopes[i].map]

\* every scope opened inside another one finds its parent holding what the
\* parent held when the scope was opened
C24_ParentKept ==
  \A i \in 2..Len(run.scopes) : ValuesOf(run, i - 1) = run.scopes[i].parent

\* a scope opened inside another one starts with the values of its parent,
\* and the exit of a scope changes no Map
C24_InheritAndExit ==
  /\ (Len(run'.scopes) = Len(run.scopes) + 1 /\ getStore(run) # 0)
     => ValuesOf(run', Len(run'.scopes)) = ValuesOf(run, Len(run.scopes))
  /\ Len(run'.scopes) < Len(run.scopes)
     => /\ run'.maps = run.maps
        /\ \A i \in 1..Len(run'.scopes) : run'.scopes[i] = run.scopes[i]

\* C24: context scope nesting. A scope opened by runWithContext inside
\* another scope starts with the parent's values, and whatever setContext and
\* clearContext do inside the nested scope, the parent scope holds the values
\* it held before, while the nested scope runs and after it has exited.
C24_ScopeNesting == []C24_ParentKept /\ [][C24_InheritAndExit]_vars

\* a nested scope that replaced a value has exited and the handler is back in
\* the parent scope, which holds the earlier value
C24_Witness ==
  /\ run.state = "running" /\ Top(run).kind = "handler"
  /\ Top(run).pc > 1 /\ route.body[Top(run).pc - 1].op = "exit"
  /\ getStore(run) # 0
  /\ "a" \in DOMAIN run.maps[getStore(run)] /\ run.maps[getStore(run)]["a"] = 1
  /\ \E i \in 1..Len(run.maps) :
       /\ i # getStore(run)
       /\ "a" \in DOMAIN run.maps[i] /\ run.maps[i]["a"] = 2

\* C25: every route handler produced by createRoute runs inside a context
\* scope, with or without middlewares: while the handler runs a store is in
\* force, and no request ends with the error of setContext called outside a
\* scope.
C25_HandlerInScope ==
  /\ (run.state = "running" /\ Top(run).kind = "handler") => getStore(run) # 0
  /\ ~(run.state = "threw" /\ run.result = ScopeError)

(***************************************************************************)
(* Frame conditions of the gateway                                         *)
(***************************************************************************)
\* request r enters the handler in this step
Arrives(r) == reqs[r].pc = "idle" /\ reqs'[r].pc # "idle"

\* the step leaves the job map, the jobs, the trusted set and the cache alone
SharedStateKept ==
  /\ activeBundles' = activeBundles
  /\ jobs' = jobs
  /\ trustedDependencies' = trustedDependencies
  /\ disk' = disk

C26_FastPathStep ==
  \A r \in Reqs :
    (/\ Arrives(r) /\ reqs'[r].kind = "local" /\ reqs'[r].sourceFile # None
     /\ reqs'[r].inm = reqs'[r].etag)
    => /\ reqs'[r].pc = "done" /\ reqs'[r].resp = RespNotModified
       /\ SharedStateKept
       /\ reqs'[r].key = None /\ reqs'[r].job = 0 /\ reqs'[r].role = "none"

\* C26: a request answered by the freshness fast path (304) leaves the job
\* map, the trusted set and the cache unchanged, and the validator is
\* compared before the job map is consulted: a request whose If-None-Match
\* equals the validator is answered 304 in the step of its arrival without
\* forming a key or joining a job, also while a job for that key is running.
C26_FastPathFrame == [][C26_FastPathStep]_vars

\* a 304 was answered while a build of the same file and validator was in
\* flight
C26_Witness ==
  \E r \in Reqs :
    /\ Done(r) /\ reqs[r].kind = "local" /\ reqs[r].resp = RespNotModified
    /\ HasActiveBundle(activeBundles, lockKey(reqs[r].sourceFile, reqs[r].etag))
    /\ ~Settled(jobs[activeBundles[lockKey(reqs[r].sourceFile, reqs[r].etag)]])

(***************************************************************************)
(* Persist before discard                                                  *)
(***************************************************************************)
InMap(j) ==
  HasActiveBundle(activeBundles, jobs[j].key) /\ activeBundles[jobs[j].key] = j

\* Bun.build of vendor job j reported success
BuildSucceeded(j) ==
  jobs[j].kind = "vendor" /\ (jobs[j].state = "writing" \/ jobs[j].write # "none")

EntryPresent(j) == ExistsInCache(disk, cachedFile(jobs[j].subject))

\* C27 as stated: there is no state in which a vendor build has succeeded,
\* its job has left the job map and its entry is absent from the cache.
C27_PersistBeforeDiscardAlways ==
  \A j \in 1..Len(jobs) : ~(BuildSucceeded(j) /\ ~InMap(j) /\ ~EntryPresent(j))

\* C27: persist before discard. A vendor job whose build succeeded stays in
\* the job map until its write has returned, and when the write succeeded
\* the entry holds the bundle from the moment the job leaves the map; only a
\* job whose write failed leaves the map without a complete entry.
C27_PersistBeforeDiscard ==
  \A j \in 1..Len(jobs) :
    /\ Writing(j) => InMap(j)
    /\ (BuildSucceeded(j) /\ ~InMap(j))
       => \/ /\ jobs[j].write = "done"
             /\ EntryPresent(j) /\ disk[cachedFile(jobs[j].subject)] = BuiltContent(j)
          \/ jobs[j].write = "failed" /\ jobs[j].state = "rejected"

\* the job a request started has persisted its bundle and left the map, and
\* the request was answered with the bundle
C27_Witness ==
  \E j \in 1..Len(jobs), r \in Reqs :
    /\ Persisted(j) /\ ~InMap(j) /\ EntryPresent(j)
    /\ reqs[r].job = j /\ reqs[r].role = "leader"
    /\ Done(r) /\ Ok200(reqs[r].resp) /\ reqs[r].resp.body = BuiltContent(j)

(***************************************************************************)
(* Local builds                                                            *)
(***************************************************************************)
\* every job made for this key has settled
NoneRunning(key) == \A j \in 1..Len(jobs) : jobs[j].key = key => Settled(jobs[j])

\* request r arrives for an existing local file without a matching validator
ArrivesForBuild(r) ==
  /\ Arrives(r) /\ reqs'[r].kind = "local" /\ reqs'[r].sourceFile # None
  /\ reqs'[r].inm # reqs'[r].etag

C28_LocalStep ==
  /\ disk' # disk
     => /\ \E j \in 1..Len(jobs) : Writing(j) /\ jobs'[j] # jobs[j]
        /\ \A j \in 1..Len(jobs) : jobs[j].kind = "local" => jobs'[j] = jobs[j]
        /\ Len(jobs') = Len(jobs)
  /\ (\E r \in Reqs : Arrives(r) /\ reqs'[r].kind = "local") => disk' = disk
  /\ \A r \in Reqs :
       (ArrivesForBuild(r) /\ NoneRunning(lockKey(reqs'[r].sourceFile, reqs'[r].etag)))
       => /\ Len(jobs') = Len(jobs) + 1
          /\ jobs'[Len(jobs')].kind = "local"
          /\ jobs'[Len(jobs')].key = lockKey(reqs'[r].sourceFile, reqs'[r].etag)
          /\ jobs'[Len(jobs')].state = "building"
          /\ reqs'[r].job = Len(jobs') /\ reqs'[r].role = "leader"

\* C28: a build of a local file creates and modifies no entry of the cache
\* directory, and its result is not retained once the job has completed: the
\* cache changes only in a step of the write of a vendor job, in which no
\* local job starts or changes, and a non-conditional
\* request for a local file that finds no job in flight for its key starts a
\* compiler invocation, also when an earlier job for that key has succeeded.
C28_LocalNotRetained == [][C28_LocalStep]_vars

\* the same unchanged file was compiled a second time after its first build
\* had succeeded
C28_Witness ==
  \E j, k \in 1..Len(jobs) :
    /\ j < k /\ jobs[j].kind = "local" /\ jobs[k].kind = "local"
    /\ jobs[j].key = jobs[k].key
    /\ jobs[j].state = "resolved" /\ jobs[j].result # None
    /\ touches = 0

\* the path is neither the public prefix nor below it as a path segment
OutsidePrefix(pathname) ==
  /\ pathname # staticBasePath
  /\ ~StartsWith(pathname, staticBasePath \o <<"/">>)

C29_OutsideStep ==
  \A r \in Reqs :
    (Arrives(r) /\ OutsidePrefix(UrlPathname(reqs'[r].target)))
    => /\ reqs'[r].pc = "done" /\ reqs'[r].resp = RespNext
       /\ reqs'[r].job = 0 /\ reqs'[r].key = None
       /\ SharedStateKept

\* C29: a request whose path is neither equal to the configured public
\* prefix nor below it as a path segment (the prefix followed by -x, or by a
\* file name without a slash) is delegated to the next handler in the step of
\* its arrival, starts no compiler invocation and leaves the job map, the
\* trusted set and the cache unchanged.
C29_OutsidePrefixDelegated == [][C29_OutsideStep]_vars

\* both kinds of near miss were delegated while a build was in flight
C29_Witness ==
  \E r1, r2 \in Reqs :
    /\ Done(r1) /\ reqs[r1].target = targetExtra /\ reqs[r1].resp = RespNext
    /\ Done(r2) /\ reqs[r2].target = targetGlued /\ reqs[r2].resp = RespNext
    /\ \E j \in 1..Len(jobs) : ~Settled(jobs[j])

(***************************************************************************)
(* The resolver and the trusted set                                        *)
(***************************************************************************)
\* the name resolves to a local package: no key of the shim map answers for
\* it and Bun.resolveSync finds it
ResolvesLocally(n) == n \in Installed /\ ~GlobalsTruthy(n)

\* local job j delivers rewritten code in this step
LocalBuildSucceeds(j) ==
  /\ jobs[j].kind = "local" /\ jobs[j].state = "building"
  /\ jobs'[j].state = "resolved" /\ jobs'[j].result # None
  /\ jobs[j].contentType # "text/css"

C30_ResolveStep ==
  /\ \A n \in trustedDependencies' \ trustedDependencies : ResolvesLocally(n)
  /\ \A j \in 1..Len(jobs) :
       LocalBuildSucceeds(j)
       => trustedDependencies' =
            trustedDependencies
            \cup {n \in ImportsOf(jobs[j].subject, jobs'[j].result[3]) : ResolvesLocally(n)}
  /\ \A r \in Reqs :
       (Arrives(r) /\ reqs'[r].kind = "vendor")
       => (reqs'[r].gate = "trusted") = (reqs'[r].moduleName \in trustedDependencies)

\* C30: resolving a bare package name changes the trusted set only when the
\* name resolves to a local package, and then exactly that name is added; a
\* key of the shim map, a name sent to the CDN and an unresolved name leave
\* the set as it is.  A package first met while a successfully built local
\* file is rewritten therefore passes the trust gate on later vendor
\* requests.
C30_ResolverTrust ==
  /\ [][C30_ResolveStep]_vars
  /\ [](\A j \in 1..Len(jobs) :
          (jobs[j].kind = "local" /\ jobs[j].state = "resolved" /\ jobs[j].result # None
           /\ jobs[j].contentType # "text/css")
          => \A n \in ImportsOf(jobs[j].subject, jobs[j].result[3]) :
               ResolvesLocally(n) => n \in trustedDependencies)

\* with CDN fallback off, a package met for the first time in the rewriting
\* of an edited file passed the gate and was served, while the names of the
\* same file that resolve to nothing local stayed outside the trusted set
C30_Witness ==
  /\ ~cdnFallback
  /\ pkgQ \notin TrustedAtConstruction(prewarm, EmptyMap, InitialFiles)
  /\ {pkgX, pkgC} \cap trustedDependencies = {}
  /\ \E j \in 1..Len(jobs) :
       /\ jobs[j].kind = "local" /\ jobs[j].state = "resolved" /\ jobs[j].result # None
       /\ {pkgQ, pkgX, pkgC} \subseteq ImportsOf(jobs[j].subject, jobs[j].result[3])
  /\ \E r \in Reqs :
       /\ Done(r) /\ reqs[r].kind = "vendor" /\ reqs[r].moduleName = pkgQ
       /\ reqs[r].gate = "trusted" /\ Ok200(reqs[r].resp)

(***************************************************************************)
(* Repeated calls of next                                                  *)
(***************************************************************************)
\* how many times the function with this identity was invoked
Invocations(id) == Cardinality({p \in 1..Len(run.calls) : run.calls[p] = id})

\* C36: for every request to a route with middlewares the route handler is
\* invoked at most once and each middleware at most once, also when some
\* middleware calls next() more than once.
C36_AtMostOnce ==
  Len(Middlewares) >= 1
  => \A p \in 1..Len(run.calls) : Invocations(run.calls[p]) <= 1

(***************************************************************************)
(* composeMiddlewares against the middlewares given one by one             *)
(***************************************************************************)
\* one request to route r from its arrival to the response or the exception:
\* the value registered by createRoute is called and every function it
\* invokes runs to its end
RECURSIVE RunToEnd(_, _)
RunToEnd(e, r) ==
  IF e.state = "idle" THEN RunToEnd(Dispatch(e, r), r)
  ELSE IF e.state # "running" THEN e
  ELSE IF Top(e).kind = "mw" THEN RunToEnd(MiddlewareStep(e), r)
  ELSE IF Top(e).kind = "handler" THEN RunToEnd(HandlerStep(e, r.body), r)
  ELSE RunToEnd(Return(ExitScope(e), e.ret), r)

\* createRoute(path, handler, m1, ..., mn) for the arguments m1, ..., mn of
\* the composeMiddlewares call m
Direct(m) == [k \in 1..Len(m.inner) |-> Leaf(m.inner[k].kind, <<k>>)]

IsComposedArgument(id) == id = HandlerId \/ Len(id) = 2

\* the identity mk has in the route that uses m1, ..., mn directly
AsDirect(id) == IF Len(id) = 2 THEN <<id[2]>> ELSE id

\* the invocations of m1, ..., mn and of the handler, without those of the
\* function composeMiddlewares returned
ArgumentCalls(calls) ==
  [p \in 1..Len(SelectSeq(calls, IsComposedArgument)) |->
     AsDirect(SelectSeq(calls, IsComposedArgument)[p])]

IsPrefix(s, t) == Len(s) <= Len(t) /\ s = SubSeq(t, 1, Len(s))

UsesComposition(n) ==
  /\ Len(Middlewares) = 1
  /\ Middlewares[1].kind = "composed"
  /\ Len(Middlewares[1].inner) >= n

\* the request of the route that uses the arguments of the composition
\* directly, with the same handler
DirectRun ==
  RunToEnd(IdleRun, [middlewares |-> Direct(Middlewares[1]), body |-> route.body])

SameOutcome(n) ==
  UsesComposition(n)
  => /\ IsPrefix(ArgumentCalls(run.calls), DirectRun.calls)
     /\ run.state \in {"done", "threw"}
        => /\ ArgumentCalls(run.calls) = DirectRun.calls
           /\ DirectRun.state = run.state
           /\ run.state = "done" => DirectRun.result = AsDirect(run.result)

\* C31: a route whose single middleware is composeMiddlewares(m1, ..., mn)
\* invokes m1, ..., mn and the handler in the same sequence, and answers the
\* request with the same response or exception, as the route created with
\* m1, ..., mn directly; n = 0 included.
C31_ComposeEquivalence == SameOutcome(0)

(***************************************************************************)
(* The rewriter applied to its own output                                  *)
(***************************************************************************)
\* finalCode handed to the replace once more, with the same configuration
RewrittenAgain == RewriteCode(finalCode, cdnFallback)

\* C32: import rewriting is idempotent. With the resolver and the
\* configuration unchanged (the public prefix starts with "/"), the rewriter
\* applied to code it has already rewritten changes no specifier and returns
\* that code unchanged.
C32_RewriteIdempotent ==
  (finalCode # None /\ StartsWith(basePrefix, <<"/">>))
  => /\ RewrittenAgain.finalCode = finalCode
     /\ RewrittenAgain.edits = << >>

\* a module whose first pass sent one bare name to the vendor path and
\* another to the mirror
C32_Witness ==
  /\ cdnFallback
  /\ finalCode # None
  /\ StartsWith(basePrefix, <<"/">>)
  /\ Len(edits) = 2
  /\ \E a, b \in 1..Len(edits) :
       edits[a].text = VendorUrl(pkgP) /\ edits[b].text = CdnUrl(pkgN)
  /\ RewrittenAgain.finalCode = finalCode

\* a module whose first pass gave a relative specifier its extension
C32_WitnessRelative ==
  /\ finalCode # None
  /\ \E a \in 1..Len(edits) : edits[a].text = <<".", "/", "u">> \o ExtJs
  /\ RewrittenAgain.finalCode = finalCode

(***************************************************************************)
(* Every request is answered and every job leaves the map                  *)
(***************************************************************************)
\* request r has arrived
Arrived(r) == reqs[r].pc # "idle"

\* job j is the one registered under its key
Registered(j) == Started(j) /\ InMap(j)

\* no job is building or writing
NoBuildRunning == \A j \in 1..Len(jobs) : Settled(jobs[j])

\* C33: when every Bun.build and Bun.write that has started returns, every
\* request, whether it started a job or joined one, is eventually answered,
\* and every job registered in the job map is eventually removed from it, so
\* that the map is empty whenever no build is running.
C33_Liveness ==
  /\ \A r \in Reqs : Arrived(r) ~> Done(r)
  /\ \A j \in JobSlots : Registered(j) ~> ~Registered(j)
  /\ [](NoBuildRunning => activeBundles = EmptyMap)

(***************************************************************************)
(* Prewarm builds                                                          *)
(***************************************************************************)
\* job j was started by the prewarm loop of the constructor
IsPrewarmJob(j) == jobs[j].by = 0

\* request r asked for the package of job j when cacheDir did not hold its
\* file yet
AskedBeforeFile(r, j) ==
  /\ Arrived(r) /\ reqs[r].kind = "vendor"
  /\ reqs[r].moduleName = jobs[j].subject
  /\ ~ExistsInCache(reqs[r].onDisk, cachedFile(jobs[j].subject))

VersionsDiffer ==
  \A f \in DOMAIN files :
    /\ Cardinality(files[f].past) = files[f].content - 1
    /\ StatOf(files[f]) \notin files[f].past

\* request r is answered 304 in this step
Answers304(r) ==
  /\ reqs[r].pc = "idle" /\ reqs'[r].pc = "done"
  /\ reqs'[r].kind = "local"
  /\ reqs'[r].resp = RespNotModified

\* request q has been sent a compiled body of sourceFile under this ETag
ServedBody(q, sourceFile, etag) ==
  /\ Done(q) /\ reqs[q].kind = "local" /\ reqs[q].sourceFile = sourceFile
  /\ Ok200(reqs[q].resp) /\ reqs[q].resp.etag = etag

\* the version of the source the body of request q was compiled from
CompiledFrom(q) == jobs[reqs[q].job].result[3]

C35_NotModifiedStep ==
  \A r \in Reqs :
    (Answers304(r) /\ VersionsDiffer)
    => \A q \in Reqs :
         ServedBody(q, reqs'[r].sourceFile, reqs'[r].etag)
         => /\ reqs[q].job \in 1..Len(jobs)
            /\ reqs[q].resp.body = jobs[reqs[q].job].result
            /\ CompiledFrom(q) = files[reqs'[r].sourceFile].content

\* C35: when every modification of a source file changes its size or its
\* modification time and no version's pair recurs, then at every 304 for a
\* local file each body served before under the same ETag, to the request
\* that started the build or to one that joined it, was compiled from the
\* content the file has at the time of the 304.
C35_NotModifiedIsCurrent == [][C35_NotModifiedStep]_vars

\* the edited file was compiled for a leader and a joiner, and a request
\* carrying their ETag was then answered 304
C35_Witness ==
  \E q1, q2, r \in Reqs :
    /\ q1 < q2 /\ q2 < r
    /\ files[fileA].content = 2 /\ VersionsDiffer
    /\ reqs[q1].role = "leader" /\ reqs[q2].role = "joiner"
    /\ reqs[q1].job = reqs[q2].job
    /\ Done(r) /\ reqs[r].kind = "local" /\ reqs[r].resp = RespNotModified
    /\ \A q \in {q1, q2} :
         /\ ServedBody(q, fileA, reqs[r].etag)
         /\ CompiledFrom(q) = files[fileA].content

====
